---- MODULE Spec2Model ----
(***************************************************************************)
(* Finder chains of a drgn Program as seen through the Python binding      *)
(* libdrgn/python/program.c.                                               *)
(*                                                                         *)
(* The binding functions (Program_register_*_finder, Program_set_enabled_* *)
(* _finders, Program_enabled_*_finders, py_*_find_fn, ...) are translated  *)
(* from program.c.  The handler list and the chain walk they call into     *)
(* (drgn_program_register_*_finder, drgn_program_set_enabled_*_finders,    *)
(* drgn_program_find_type, ...) live in the native library, outside        *)
(* program.c; they are modelled from the specification, section 4.3.       *)
(* Allocation failure (PyErr_NoMemory, drgn_enomem) is not modelled.       *)
(***************************************************************************)
EXTENDS Integers, Sequences, FiniteSets, TLC

(***************************************************************************)
(* Bounds of the model.                                                    *)
(***************************************************************************)
\* Finders registered in one Program, over its four chains together.
MaxFinders == 3

\* Memory segments added to one Program.
MaxSegments == 2

\* Modules in the registry of one Program.
MaxModules == 2
MaxDepth == 2

(***************************************************************************)
(* Program constants.  size_t is modelled SizeBits wide.                   *)
(***************************************************************************)
SizeBits == 4
SIZE_MAX == 2^SizeBits - 1
\* "Enable last": the index past every enabled entry, which the registration
\* appends at.  program.c names the sentinel; its value is the native
\* header's, taken here as the largest index.
DRGN_HANDLER_REGISTER_ENABLE_LAST == SIZE_MAX
\* "(SIZE_MAX - 1)" by the comment in Program_register_##which##_finder.
DRGN_HANDLER_REGISTER_DONT_ENABLE == SIZE_MAX - 1

\* DEFINE_PROGRAM_FINDER_METHODS(debug_info | type | object | symbol)
Which == {"debug_info", "type", "object", "symbol"}

\* Names a caller passes for a finder.
Names == {"a", "b", "c"}
\* A Python object that is not a str, where a name is expected.
NotStr == "<int>"
\* Python callables, and an object that is not callable.
Callables == {"f", "g"}
\* an instance of SymbolIndex, which is callable
SymbolIndexObj == "ix"
NotCallable == "<notcallable>"
\* Values random() yields in deprecated_finder_name_obj.
Randoms == {"1"}

(***************************************************************************)
(* Python objects handed in as enable_index.                               *)
(***************************************************************************)
PyNone == [t |-> "none", v |-> 0]
PyInt(n) == [t |-> "int", v |-> n]
EnableIndexObjs ==
    {PyNone} \cup {PyInt(n) : n \in (-2 .. 1) \cup {SIZE_MAX - 1}}

(***************************************************************************)
(* Error codes: drgn error codes and the Python exceptions of the binding. *)
(***************************************************************************)
OK == "OK"
TypeError == "TypeError"
ValueError == "ValueError"
\* whatever a finder callback raises
CallbackException == "CallbackException"
ObjectNotFoundError == "ObjectNotFoundError"
DRGN_ERROR_TYPE == "DRGN_ERROR_TYPE"
DRGN_ERROR_LOOKUP == "DRGN_ERROR_LOOKUP"
\* &drgn_not_found
drgn_not_found == "drgn_not_found"
\* the error slot of a call that has not returned yet
InProgress == "<in progress>"
OverflowError == "OverflowError"
DRGN_ERROR_INVALID_ARGUMENT == "DRGN_ERROR_INVALID_ARGUMENT"

(***************************************************************************)
(* State.                                                                  *)
(*   chains[w]  the handler list of chain w inside struct drgn_program:    *)
(*              handlers (name, callback argument, find function) and the  *)
(*              names of the enabled ones in priority order                *)
(*   objects    Program.objects, the set of held Python objects            *)
(*   res        the chain walk of the lookup in progress or last finished:  *)
(*              the chain, the query flags, the position in the enabled    *)
(*              sequence, the callbacks made so far and the symbol result  *)
(*              builder                                                    *)
(*   modules    the modules of the program (the native module registry)    *)
(*   segments   the memory segments of the program, in the order added     *)
(*   last       the method called last, the error it returned and, for a   *)
(*              registration, the name, callable and enable_index given,   *)
(*              for a lookup, what it returned                             *)
(***************************************************************************)
VARIABLES chains, objects, res, last, modules, segments,
          programs, cached_log_level, cached_enable_progress_bar, progs, refcnt,
          gil, threads, stack

\* the interpreter lock and the threads, and the lookups a callback has
\* suspended
sched == <<gil, threads, stack>>

\* the logging state of the binding and the life of the Program objects
host == <<programs, cached_log_level, cached_enable_progress_bar, progs, sched>>

vars == <<chains, objects, res, last, modules, segments, host, refcnt>>

\* enum drgn_log_level: DRGN_LOG_DEBUG is 0 and DRGN_LOG_NONE follows
\* DRGN_LOG_CRITICAL
DRGN_LOG_WARNING == 2
DRGN_LOG_NONE == 5

\* The Program objects: self, whose chains, segments, modules and held
\* objects the model carries, and another one.
ProgIds == {"self", "other"}

\* no Program object is allocated under the identity; progress_file is
\* whether the progress file is stderr
NoProgram == [state |-> "none", log_level |-> DRGN_LOG_NONE, progress_file |-> FALSE,
              cleared |-> FALSE]

\* The threads of the process; NoThread stands for no holder of the
\* interpreter lock and for the NULL thread state.
Threads == {"t1", "t2"}
NoThread == "none"

\* a thread outside the library that does not hold the interpreter lock
IdleThread == [pc |-> "idle", state |-> NoThread, held |-> FALSE, gstate |-> "", from |-> ""]

\* no lookup has run since the last other call
NoWalk == [active |-> FALSE, op |-> "", which |-> "", kinds |-> {}, flags |-> {},
           pos |-> 0, log |-> <<>>, syms |-> <<>>]

EmptyList == [handlers |-> {}, enabled |-> <<>>]

\* names of all handlers of a list
HandlerNames(list) == {h.name : h \in list.handlers}

TotalFinders ==
    Cardinality(chains["debug_info"].handlers) + Cardinality(chains["type"].handlers)
    + Cardinality(chains["object"].handlers) + Cardinality(chains["symbol"].handlers)

Min(x, y) == IF x <= y THEN x ELSE y

\* seq with x put before its element number i + 1 (i = 0 .. Len(seq))
InsertAt(seq, i, x) == SubSeq(seq, 1, i) \o <<x>> \o SubSeq(seq, i + 1, Len(seq))

IsDuplicateFree(seq) == \A i, j \in 1 .. Len(seq) : seq[i] = seq[j] => i = j

(***************************************************************************)
(* The native handler list (section 4.3 of the specification).             *)
(***************************************************************************)
\* register(name, strategy, enable_position): a registered name is refused;
\* otherwise the entry is added and, unless the position is "leave
\* disabled", enabled before the entry at that index of the enabled
\* subsequence (an index beyond the end appends).
drgn_handler_list_register(list, name, arg, find, enable_index) ==
    IF name \in HandlerNames(list)
    THEN [err |-> DRGN_ERROR_INVALID_ARGUMENT, list |-> list]
    ELSE [err |-> OK,
          list |-> [handlers |-> list.handlers
                                 \cup {[name |-> name, arg |-> arg, find |-> find]},
                    enabled |->
                        IF enable_index = DRGN_HANDLER_REGISTER_DONT_ENABLE
                        THEN list.enabled
                        ELSE InsertAt(list.enabled,
                                      Min(enable_index, Len(list.enabled)), name)]]

\* registered_names(): all entries, enabled or not.
drgn_handler_list_registered(list) == HandlerNames(list)

\* enabled_names(): the enabled entries in priority order.
drgn_handler_list_enabled(list) == list.enabled

\* set_enabled(ordered names): an unknown name is an error and leaves the
\* chain unchanged; an entry has one position, so a name given twice is
\* refused likewise; otherwise the enabled subsequence becomes names.
drgn_handler_list_set_enabled(list, names) ==
    IF \E i \in 1 .. Len(names) : names[i] \notin HandlerNames(list)
    THEN [err |-> DRGN_ERROR_INVALID_ARGUMENT, list |-> list]
    ELSE IF ~IsDuplicateFree(names)
    THEN [err |-> DRGN_ERROR_INVALID_ARGUMENT, list |-> list]
    ELSE [err |-> OK, list |-> [list EXCEPT !.enabled = names]]

(***************************************************************************)
(* Program.objects                                                         *)
(***************************************************************************)
\* the (program, callable) tuple Py_BuildValue("OO", self, fn) makes; every
\* call makes a new tuple, told apart here by the registration it is for
PyTuple(which, name, fn) == [kind |-> "tuple", fn |-> fn, key |-> <<which, name>>]
PyCallable(fn) == [kind |-> "callable", fn |-> fn, key |-> <<>>]

\* Variant of Program_hold_object that does not insert the object.
Program_hold_object_NoInsert(objs, obj) == objs

Program_hold_object(objs, obj) == objs \cup {obj}

\* the references the Program owns after Py_INCREF of the objects objs
Py_INCREF(refs, objs) ==
    [o \in DOMAIN refs \cup objs |->
        (IF o \in DOMAIN refs THEN refs[o] ELSE 0) + (IF o \in objs THEN 1 ELSE 0)]

\* the references the Program owns after Py_DECREF of the objects objs
Py_DECREF(refs, objs) ==
    [o \in DOMAIN refs \cup objs |->
        (IF o \in DOMAIN refs THEN refs[o] ELSE 0) - (IF o \in objs THEN 1 ELSE 0)]

\* debug_info_finder_arg, type_finder_arg, object_finder_arg, symbol_finder_arg
finder_arg(which, name, fn) ==
    IF which \in {"type", "symbol"} THEN PyTuple(which, name, fn) ELSE PyCallable(fn)

PyCallable_Check(fn) == fn \in Callables \cup {SymbolIndexObj}

(***************************************************************************)
(* Program_register_##which##_finder                                       *)
(***************************************************************************)
\* PyLong_AsSize_t
PyLong_AsSize_t(obj) ==
    IF obj.t # "int" THEN [err |-> TypeError, value |-> SIZE_MAX]
    ELSE IF obj.v < 0 \/ obj.v > SIZE_MAX THEN [err |-> OverflowError, value |-> SIZE_MAX]
    ELSE [err |-> OK, value |-> obj.v]

\* Variant of EnableIndexArg that maps -1 to index 0.
EnableIndexArg_MinusOneFirst(enable_index_obj) ==
    IF enable_index_obj = PyNone
    THEN [err |-> OK, value |-> DRGN_HANDLER_REGISTER_DONT_ENABLE]
    ELSE IF enable_index_obj = PyInt(-1)
    THEN [err |-> OK, value |-> 0]
    ELSE LET r == PyLong_AsSize_t(enable_index_obj) IN
         IF r.err # OK THEN r
         ELSE IF r.value = DRGN_HANDLER_REGISTER_DONT_ENABLE
         THEN [err |-> OK, value |-> r.value - 1]
         ELSE r

\* Variant of EnableIndexArg without the decrement of an index that equals
\* the sentinel.
EnableIndexArg_NoDecrement(enable_index_obj) ==
    IF enable_index_obj = PyNone
    THEN [err |-> OK, value |-> DRGN_HANDLER_REGISTER_DONT_ENABLE]
    ELSE IF enable_index_obj = PyInt(-1)
    THEN [err |-> OK, value |-> DRGN_HANDLER_REGISTER_ENABLE_LAST]
    ELSE PyLong_AsSize_t(enable_index_obj)

\* Variant of EnableIndexArg that takes None for -1.
EnableIndexArg_NoneEnables(enable_index_obj) ==
    IF enable_index_obj = PyNone \/ enable_index_obj = PyInt(-1)
    THEN [err |-> OK, value |-> DRGN_HANDLER_REGISTER_ENABLE_LAST]
    ELSE LET r == PyLong_AsSize_t(enable_index_obj) IN
         IF r.err # OK THEN r
         ELSE IF r.value = DRGN_HANDLER_REGISTER_DONT_ENABLE
         THEN [err |-> OK, value |-> r.value - 1]
         ELSE r

\* enable_index_obj to the size_t handed to the native registration
EnableIndexArg(enable_index_obj) ==
    IF enable_index_obj = PyNone
    THEN [err |-> OK, value |-> DRGN_HANDLER_REGISTER_DONT_ENABLE]
    ELSE IF enable_index_obj = PyInt(-1)
    THEN [err |-> OK, value |-> DRGN_HANDLER_REGISTER_ENABLE_LAST]
    ELSE LET r == PyLong_AsSize_t(enable_index_obj) IN
         IF r.err # OK THEN r
         ELSE IF r.value = DRGN_HANDLER_REGISTER_DONT_ENABLE
         THEN [err |-> OK, value |-> r.value - 1]
         ELSE r

\* Variant of RegisterFinder that holds the argument before the native
\* registration.
RegisterFinder_HoldFirst(list, objs, which, name, fn, enable_index_obj) ==
    LET unchanged == [list |-> list, objects |-> objs]
        idx == EnableIndexArg(enable_index_obj)
        arg == finder_arg(which, name, fn)
        r == drgn_handler_list_register(list, name, arg, "py_" \o which \o "_find_fn",
                                        idx.value)
    IN  IF ~PyCallable_Check(fn) THEN [err |-> TypeError] @@ unchanged
        ELSE IF idx.err # OK THEN [err |-> idx.err] @@ unchanged
        ELSE [err |-> r.err, list |-> r.list, objects |-> Program_hold_object(objs, arg)]

\* what the call leaves: the error, the chain and the held objects
RegisterFinder(list, objs, which, name, fn, enable_index_obj) ==
    LET unchanged == [list |-> list, objects |-> objs]
        idx == EnableIndexArg(enable_index_obj)
        arg == finder_arg(which, name, fn)
        r == drgn_handler_list_register(list, name, arg, "py_" \o which \o "_find_fn",
                                        idx.value)
    IN  IF ~PyCallable_Check(fn) THEN [err |-> TypeError] @@ unchanged
        ELSE IF idx.err # OK THEN [err |-> idx.err] @@ unchanged
        ELSE IF r.err # OK THEN [err |-> r.err] @@ unchanged
        ELSE [err |-> OK, list |-> r.list, objects |-> Program_hold_object(objs, arg)]

Program_register_finder(which, name, fn, enable_index_obj) ==
    /\ ~res.active
    /\ TotalFinders < MaxFinders
    /\ res' = NoWalk
    /\ LET r == RegisterFinder(chains[which], objects, which, name, fn,
                               enable_index_obj)
       IN  /\ chains' = [chains EXCEPT ![which] = r.list]
           /\ objects' = r.objects
           /\ refcnt' = Py_INCREF(refcnt, r.objects \ objects)
           /\ last' = [op |-> "register", which |-> which, err |-> r.err,
                      args |-> <<name, fn, enable_index_obj>>]
    /\ UNCHANGED <<modules, segments, host>>

(***************************************************************************)
(* Program_add_type_finder, Program_add_object_finder (deprecated)         *)
(***************************************************************************)
\* "%S_%lu" of fn.__name__ and random()
deprecated_finder_name_obj(fn, rnd) == fn \o "_" \o rnd

AddFinder(list, objs, which, fn, rnd, find) ==
    LET unchanged == [list |-> list, objects |-> objs]
        name == deprecated_finder_name_obj(fn, rnd)
        arg == finder_arg(which, name, fn)
        r == drgn_handler_list_register(list, name, arg, find, 0)
    IN  IF ~PyCallable_Check(fn) THEN [err |-> TypeError] @@ unchanged
        ELSE IF r.err # OK THEN [err |-> r.err] @@ unchanged
        ELSE [err |-> OK, list |-> r.list, objects |-> Program_hold_object(objs, arg)]

Program_add_type_finder(fn, rnd) ==
    /\ ~res.active
    /\ TotalFinders < MaxFinders
    /\ res' = NoWalk
    /\ LET r == AddFinder(chains["type"], objects, "type", fn, rnd,
                          "py_type_find_fn_old")
       IN  /\ chains' = [chains EXCEPT !["type"] = r.list]
           /\ objects' = r.objects
           /\ refcnt' = Py_INCREF(refcnt, r.objects \ objects)
           /\ last' = [op |-> "add_type_finder", which |-> "type", err |-> r.err,
                      args |-> <<>>]
    /\ UNCHANGED <<modules, segments, host>>

Program_add_object_finder(fn, rnd) ==
    /\ ~res.active
    /\ TotalFinders < MaxFinders
    /\ res' = NoWalk
    /\ LET r == AddFinder(chains["object"], objects, "object", fn, rnd,
                          "py_object_find_fn")
       IN  /\ chains' = [chains EXCEPT !["object"] = r.list]
           /\ objects' = r.objects
           /\ refcnt' = Py_INCREF(refcnt, r.objects \ objects)
           /\ last' = [op |-> "add_object_finder", which |-> "object", err |-> r.err,
                      args |-> <<>>]
    /\ UNCHANGED <<modules, segments, host>>

(***************************************************************************)
(* Program_registered_##which##_finders, Program_enabled_##which##_finders *)
(***************************************************************************)
\* the set built by PySet_Add of names[0 .. count)
Program_registered_finders(which) ==
    LET names == drgn_handler_list_registered(chains[which]) IN {n \in names : TRUE}

\* the list built by PyList_SET_ITEM(res, i, names[i]) for i in [0, count)
EnabledList(names) == [i \in 1 .. Len(names) |-> names[i]]

Program_enabled_finders(which) == EnabledList(drgn_handler_list_enabled(chains[which]))

(***************************************************************************)
(* Program_set_enabled_##which##_finders                                   *)
(***************************************************************************)
\* Variant of NamesArray whose loop stops one item early.
NamesArray_DropLast(items) ==
    IF \E i \in 1 .. Len(items) : items[i] = NotStr
    THEN [err |-> TypeError, names |-> <<>>]
    ELSE [err |-> OK, names |-> [i \in 1 .. Len(items) - 1 |-> items[i]]]

\* names[i] = PyUnicode_AsUTF8(item i) for i in [0, count); an item that is
\* not a str raises TypeError
NamesArray(items) ==
    IF \E i \in 1 .. Len(items) : items[i] = NotStr
    THEN [err |-> TypeError, names |-> <<>>]
    ELSE [err |-> OK, names |-> [i \in 1 .. Len(items) |-> items[i]]]

\* Variant of SetEnabledFinders that hands on only the names it knows.
SetEnabledFinders_SkipUnknown(list, names_obj) ==
    LET arr == NamesArray(names_obj.items)
        known == SelectSeq(arr.names, LAMBDA n : n \in HandlerNames(list))
    IN  IF ~names_obj.isseq THEN [err |-> TypeError, list |-> list]
        ELSE IF arr.err # OK THEN [err |-> arr.err, list |-> list]
        ELSE drgn_handler_list_set_enabled(list, known)

SetEnabledFinders(list, names_obj) ==
    LET arr == NamesArray(names_obj.items)
        r == drgn_handler_list_set_enabled(list, arr.names)
    IN  IF ~names_obj.isseq THEN [err |-> TypeError, list |-> list]
        ELSE IF arr.err # OK THEN [err |-> arr.err, list |-> list]
        ELSE r

\* Variant of Program_set_enabled_finders in which every expansion of the
\* macro sets the enabled finders of the type chain.
Program_set_enabled_finders_TypeChain(which, names_obj) ==
    /\ ~res.active
    /\ res' = NoWalk
    /\ LET r == SetEnabledFinders(chains["type"], names_obj)
       IN  /\ chains' = [chains EXCEPT !["type"] = r.list]
           /\ last' = [op |-> "set_enabled", which |-> which, err |-> r.err,
                      args |-> <<names_obj>>]
    /\ UNCHANGED <<objects, refcnt, modules, segments, host>>

Program_set_enabled_finders(which, names_obj) ==
    /\ ~res.active
    /\ res' = NoWalk
    /\ LET r == SetEnabledFinders(chains[which], names_obj)
       IN  /\ chains' = [chains EXCEPT ![which] = r.list]
           /\ last' = [op |-> "set_enabled", which |-> which, err |-> r.err,
                      args |-> <<names_obj>>]
    /\ UNCHANGED <<objects, refcnt, modules, segments, host>>

(***************************************************************************)
(* Inputs                                                                  *)
(***************************************************************************)
\* the lists of at most two items of S
ShortLists(S) == {<<>>} \cup {<<x>> : x \in S} \cup {<<x, y>> : x \in S, y \in S}

(***************************************************************************)
(* Python objects a finder callback hands back, and lookup arguments.      *)
(* PyRaise is the NULL return of a call that raised.                       *)
(***************************************************************************)
PyObj(t, prog, v, items) == [t |-> t, prog |-> prog, v |-> v, items |-> items]
Py_None == PyObj("None", "", "", <<>>)
PyRaise == PyObj("raise", "", "", <<>>)
PyLong == PyObj("int", "", "", <<>>)
PyStr == PyObj("str", "", "", <<>>)
PyUnicode(name) == PyObj("str", "", name, <<>>)
DrgnType(prog, v) == PyObj("Type", prog, v, <<>>)
DrgnObject(prog, v) == PyObj("Object", prog, v, <<>>)
PyList(items) == PyObj("list", "", "", items)

NotSymbol == "<notsymbol>"
TypeRets ==
    {Py_None, PyRaise, PyLong, DrgnType("self", "X"), DrgnType("self", "Y"),
     DrgnType("other", "X")}
ObjectRets ==
    {Py_None, PyRaise, PyLong, DrgnObject("self", "X"), DrgnObject("self", "Y"),
     DrgnObject("other", "X")}
SymbolRets ==
    {Py_None, PyRaise} \cup {PyList(l) : l \in ShortLists({"s1", "s2", NotSymbol})}

\* the type kinds a name can stand for, as the bits of kinds
KindSets == {{1}, {1, 2}}

\* the symbols of the SymbolIndex
IndexSymbols == <<"s1", "s2">>

(***************************************************************************)
(* The find functions registered with the native chains.  Each returns the *)
(* error, the value found, the symbol result builder and the number of     *)
(* calls it made to the Python callable.                                   *)
(***************************************************************************)
FindRet(err, value, builder, calls) ==
    [err |-> err, value |-> value, builder |-> builder, calls |-> calls]

\* drgn_error_from_python(): the error that carries the raised exception
drgn_error_from_python(exc) == exc

\* Variant of py_type_find_fn_common that takes a return value that is not a
\* Type for None.
py_type_find_fn_common_WrongKindNotFound(type_obj, calls) ==
    IF type_obj.t # "Type"
    THEN FindRet(drgn_not_found, "", <<>>, calls)
    ELSE IF type_obj.prog # "self"
    THEN FindRet(drgn_error_from_python(ValueError), "", <<>>, calls)
    ELSE FindRet(OK, type_obj.v, <<>>, calls)

py_type_find_fn_common(type_obj, calls) ==
    IF type_obj.t # "Type"
    THEN FindRet(drgn_error_from_python(TypeError), "", <<>>, calls)
    ELSE IF type_obj.prog # "self"
    THEN FindRet(drgn_error_from_python(ValueError), "", <<>>, calls)
    ELSE FindRet(OK, type_obj.v, <<>>, calls)

\* Variant of py_type_find_fn that returns a lookup error for None.
py_type_find_fn_NoneIsLookupError(rets) ==
    LET type_obj == rets[1] IN
    IF type_obj = PyRaise THEN FindRet(drgn_error_from_python(CallbackException), "", <<>>, 1)
    ELSE IF type_obj = Py_None THEN FindRet(DRGN_ERROR_LOOKUP, "", <<>>, 1)
    ELSE py_type_find_fn_common(type_obj, 1)

py_type_find_fn(rets) ==
    LET type_obj == rets[1] IN
    IF type_obj = PyRaise THEN FindRet(drgn_error_from_python(CallbackException), "", <<>>, 1)
    ELSE IF type_obj = Py_None THEN FindRet(drgn_not_found, "", <<>>, 1)
    ELSE py_type_find_fn_common(type_obj, 1)

\* for_each_bit(kind, kinds): call number i is for the i-th kind
RECURSIVE py_type_find_fn_old_loop(_, _, _)
py_type_find_fn_old_loop(nkinds, rets, i) ==
    IF i > nkinds THEN FindRet(drgn_not_found, "", <<>>, nkinds)
    ELSE LET type_obj == rets[i] IN
         IF type_obj = PyRaise
         THEN FindRet(drgn_error_from_python(CallbackException), "", <<>>, i)
         ELSE IF type_obj = Py_None THEN py_type_find_fn_old_loop(nkinds, rets, i + 1)
         ELSE py_type_find_fn_common(type_obj, i)

py_type_find_fn_old(kinds, rets) == py_type_find_fn_old_loop(Cardinality(kinds), rets, 1)

\* drgn_object_copy(ret, obj): an object of another program is refused
drgn_object_copy(obj) ==
    IF obj.prog # "self" THEN FindRet(DRGN_ERROR_INVALID_ARGUMENT, "", <<>>, 1)
    ELSE FindRet(OK, obj.v, <<>>, 1)

py_object_find_fn(rets) ==
    LET obj == rets[1] IN
    IF obj = PyRaise THEN FindRet(drgn_error_from_python(CallbackException), "", <<>>, 1)
    ELSE IF obj = Py_None THEN FindRet(drgn_not_found, "", <<>>, 1)
    ELSE IF obj.t # "Object" THEN FindRet(drgn_error_from_python(TypeError), "", <<>>, 1)
    ELSE drgn_object_copy(obj)

\* drgn_symbol_index_find(): the symbols of the index, the first only when
\* one is asked for
drgn_symbol_index_find(flags, builder) ==
    FindRet(OK, "",
            builder \o (IF "ONE" \in flags THEN SubSeq(IndexSymbols, 1, 1)
                        ELSE IndexSymbols),
            0)

\* for (i = 0; i < len; i++): items i .. len of the sequence
RECURSIVE py_symbol_find_fn_loop(_, _, _)
py_symbol_find_fn_loop(items, i, builder) ==
    IF i > Len(items) THEN FindRet(OK, "", builder, 1)
    ELSE IF items[i] = NotSymbol THEN FindRet(DRGN_ERROR_TYPE, "", builder, 1)
    ELSE py_symbol_find_fn_loop(items, i + 1, Append(builder, items[i]))

\* Variant of py_symbol_find_fn that counts the symbols after adding them.
py_symbol_find_fn_CheckAfter(flags, arg, rets, builder) ==
    IF arg.fn = SymbolIndexObj THEN drgn_symbol_index_find(flags, builder)
    ELSE LET tmp == rets[1]
             len == Len(tmp.items)
             r == py_symbol_find_fn_loop(tmp.items, 1, builder)
         IN  IF tmp = PyRaise
             THEN FindRet(drgn_error_from_python(CallbackException), "", builder, 1)
             ELSE IF tmp.t # "list"
             THEN FindRet(drgn_error_from_python(TypeError), "", builder, 1)
             ELSE IF r.err = OK /\ len > 1 /\ "ONE" \in flags
             THEN FindRet(DRGN_ERROR_INVALID_ARGUMENT, "", r.builder, 1)
             ELSE r

\* Variant of py_symbol_find_fn that takes the fast path for every callable.
py_symbol_find_fn_AlwaysFast(flags, arg, rets, builder) ==
    drgn_symbol_index_find(flags, builder)

py_symbol_find_fn(flags, arg, rets, builder) ==
    IF arg.fn = SymbolIndexObj THEN drgn_symbol_index_find(flags, builder)
    ELSE LET tmp == rets[1]
             len == Len(tmp.items)
         IN  IF tmp = PyRaise
             THEN FindRet(drgn_error_from_python(CallbackException), "", builder, 1)
             ELSE IF tmp.t # "list"
             THEN FindRet(drgn_error_from_python(TypeError), "", builder, 1)
             ELSE IF len > 1 /\ "ONE" \in flags
             THEN FindRet(DRGN_ERROR_INVALID_ARGUMENT, "", builder, 1)
             ELSE py_symbol_find_fn_loop(tmp.items, 1, builder)

\* SymbolIndex.__call__(prog, name, address, one): the list of the symbols
\* drgn_symbol_index_find() finds for the flags of the arguments
SymbolIndex_call(flags) == PyList(drgn_symbol_index_find(flags, <<>>).builder)

(***************************************************************************)
(* The native chain walk (section 4.3 of the specification): resolve()     *)
(* calls the find function of the enabled entries in priority order; found *)
(* ends the walk with the result, not-found goes on to the next entry, any *)
(* other error ends the walk with that error, and a walk that runs out of  *)
(* entries is a lookup error.  A symbol strategy has found when the result *)
(* builder holds a symbol.                                                 *)
(***************************************************************************)
Handler(list, name) == CHOOSE h \in list.handlers : h.name = name

\* what the Python callable may hand back over the calls of one find function
RetsFor(h, kinds) ==
    IF h.find = "py_type_find_fn" THEN {<<r>> : r \in TypeRets}
    ELSE IF h.find = "py_type_find_fn_old"
    THEN [1 .. Cardinality(kinds) -> {Py_None, PyRaise, DrgnType("self", "X")}]
    ELSE IF h.find = "py_object_find_fn" THEN {<<r>> : r \in ObjectRets}
    ELSE IF h.arg.fn = SymbolIndexObj THEN {<<>>}
    ELSE {<<r>> : r \in SymbolRets}

\* h->find(..., h->arg, ...)
Invoke(h, kinds, flags, builder, rets) ==
    IF h.find = "py_type_find_fn" THEN py_type_find_fn(rets)
    ELSE IF h.find = "py_type_find_fn_old" THEN py_type_find_fn_old(kinds, rets)
    ELSE IF h.find = "py_object_find_fn" THEN py_object_find_fn(rets)
    ELSE py_symbol_find_fn(flags, h.arg, rets, builder)

StartWalk(op, which, kinds, flags) ==
    [active |-> TRUE, op |-> op, which |-> which, kinds |-> kinds, flags |-> flags,
     pos |-> 0, log |-> <<>>, syms |-> <<>>]

\* the tail of Program_find_type, Program_find_object, Program_symbol and
\* Program_symbols once the native lookup has returned err
ContainsReturn_AnyErrorIsFalse(err) ==
    [op |-> "contains", which |-> "object", err |-> OK, args |-> <<err = OK>>]

\* the tail of Program_contains: 0 for DRGN_ERROR_LOOKUP, -1 with the error
\* set for another error, 1 otherwise
ContainsReturn(err) ==
    IF err = DRGN_ERROR_LOOKUP
    THEN [op |-> "contains", which |-> "object", err |-> OK, args |-> <<FALSE>>]
    ELSE IF err # OK
    THEN [op |-> "contains", which |-> "object", err |-> err, args |-> <<>>]
    ELSE [op |-> "contains", which |-> "object", err |-> OK, args |-> <<TRUE>>]

LookupReturn_NotFoundOtherName(op, which, err, value, syms, name) ==
    IF op = "contains" THEN ContainsReturn(err)
    ELSE IF op = "find_object" /\ err = DRGN_ERROR_LOOKUP
    THEN [op |-> op, which |-> which, err |-> ObjectNotFoundError, args |-> <<"">>]
    ELSE IF err # OK THEN [op |-> op, which |-> which, err |-> err, args |-> <<>>]
    ELSE IF op = "symbol" THEN [op |-> op, which |-> which, err |-> OK, args |-> <<syms[1]>>]
    ELSE IF op = "symbols" THEN [op |-> op, which |-> which, err |-> OK, args |-> <<syms>>]
    ELSE [op |-> op, which |-> which, err |-> OK, args |-> <<value>>]

\* (name: the name attribute set_object_not_found_error gives the exception)
LookupReturn(op, which, err, value, syms, name) ==
    IF op = "contains" THEN ContainsReturn(err)
    ELSE IF op = "find_object" /\ err = DRGN_ERROR_LOOKUP
    THEN [op |-> op, which |-> which, err |-> ObjectNotFoundError, args |-> name]
    ELSE IF err # OK THEN [op |-> op, which |-> which, err |-> err, args |-> <<>>]
    ELSE IF op = "symbol" THEN [op |-> op, which |-> which, err |-> OK, args |-> <<syms[1]>>]
    ELSE IF op = "symbols" THEN [op |-> op, which |-> which, err |-> OK, args |-> <<syms>>]
    ELSE [op |-> op, which |-> which, err |-> OK, args |-> <<value>>]

\* one entry of the walk: the callback of the next enabled entry is called
Chain_invoke(rets) ==
    /\ res.active
    /\ res.pos < Len(chains[res.which].enabled)
    /\ LET name == chains[res.which].enabled[res.pos + 1]
           h == Handler(chains[res.which], name)
       IN  /\ rets \in RetsFor(h, res.kinds)
           /\ LET r == Invoke(h, res.kinds, res.flags, res.syms, rets)
                  entry == [name |-> name, rets |-> SubSeq(rets, 1, r.calls),
                            err |-> r.err,
                            added |-> SubSeq(r.builder, Len(res.syms) + 1, Len(r.builder))]
                  found == r.err = OK /\ (res.which = "symbol" => Len(r.builder) > 0)
                  next == [res EXCEPT !.pos = @ + 1, !.log = Append(@, entry),
                                      !.syms = r.builder]
              IN  IF r.err = drgn_not_found \/ (r.err = OK /\ ~found)
                  THEN /\ res' = next
                       /\ UNCHANGED last
                  ELSE /\ res' = [next EXCEPT !.active = FALSE]
                       /\ last' = LookupReturn(res.op, res.which, r.err, r.value, r.builder,
                                               last.args)
    /\ UNCHANGED <<chains, objects, refcnt, modules, segments, host>>

\* no enabled entry is left
Chain_exhausted ==
    /\ res.active
    /\ res.pos = Len(chains[res.which].enabled)
    /\ res' = [res EXCEPT !.active = FALSE]
    /\ last' = LookupReturn(res.op, res.which,
                            IF res.op = "symbols" THEN OK ELSE DRGN_ERROR_LOOKUP,
                            "", res.syms, last.args)
    /\ UNCHANGED <<chains, objects, refcnt, modules, segments, host>>

(***************************************************************************)
(* Program_find_type, Program_find_object, Program_symbol, Program_symbols *)
(***************************************************************************)
Pending(op, which) == [op |-> op, which |-> which, err |-> InProgress, args |-> <<>>]

Program_find_type(name_or_type, kinds) ==
    /\ ~res.active
    /\ IF name_or_type.t = "Type"
       THEN /\ res' = NoWalk
            /\ last' = IF name_or_type.prog # "self"
                       THEN [op |-> "find_type", which |-> "type", err |-> ValueError,
                             args |-> <<>>]
                       ELSE [op |-> "find_type", which |-> "type", err |-> OK,
                             args |-> <<name_or_type.v>>]
       ELSE IF name_or_type.t # "str"
       THEN /\ res' = NoWalk
            /\ last' = [op |-> "find_type", which |-> "type", err |-> TypeError,
                        args |-> <<>>]
       ELSE /\ res' = StartWalk("find_type", "type", kinds, {})
            /\ last' = Pending("find_type", "type")
    /\ UNCHANGED <<chains, objects, refcnt, modules, segments, host>>

Program_find_object(name_obj) ==
    /\ ~res.active
    /\ IF name_obj.t # "str"
       THEN /\ res' = NoWalk
            /\ last' = [op |-> "find_object", which |-> "object", err |-> TypeError,
                        args |-> <<>>]
       ELSE /\ res' = StartWalk("find_object", "object", {}, {})
            /\ last' = [Pending("find_object", "object") EXCEPT !.args = <<name_obj.v>>]
    /\ UNCHANGED <<chains, objects, refcnt, modules, segments, host>>

KeyError == "KeyError"

\* program[key]
Program_subscript(key) ==
    IF key.t # "str"
    THEN /\ ~res.active
         /\ res' = NoWalk
         /\ last' = [op |-> "subscript", which |-> "object", err |-> KeyError,
                     args |-> <<>>]
         /\ UNCHANGED <<chains, objects, refcnt, modules, segments, host>>
    ELSE Program_find_object(key)

\* key in program
Program_contains(key) ==
    /\ ~res.active
    /\ IF key.t # "str"
       THEN /\ res' = NoWalk
            /\ last' = [op |-> "contains", which |-> "object", err |-> KeyError,
                        args |-> <<FALSE>>]
       ELSE /\ res' = StartWalk("contains", "object", {}, {})
            /\ last' = [Pending("contains", "object") EXCEPT !.args = <<key.v>>]
    /\ UNCHANGED <<chains, objects, refcnt, modules, segments, host>>

\* drgn_program_find_symbol_by_name / _by_address ask for one symbol
Program_symbol(arg) ==
    /\ ~res.active
    /\ IF arg.t = "str"
       THEN /\ res' = StartWalk("symbol", "symbol", {}, {"NAME", "ONE"})
            /\ last' = Pending("symbol", "symbol")
       ELSE IF arg.t = "int"
       THEN /\ res' = StartWalk("symbol", "symbol", {}, {"ADDR", "ONE"})
            /\ last' = Pending("symbol", "symbol")
       ELSE /\ res' = NoWalk
            /\ last' = [op |-> "symbol", which |-> "symbol", err |-> TypeError,
                        args |-> <<>>]
    /\ UNCHANGED <<chains, objects, refcnt, modules, segments, host>>

\* drgn_program_find_symbols_by_name / _by_address ask for all symbols
Program_symbols(arg) ==
    /\ ~res.active
    /\ IF arg = Py_None
       THEN /\ res' = StartWalk("symbols", "symbol", {}, {})
            /\ last' = Pending("symbols", "symbol")
       ELSE IF arg.t = "str"
       THEN /\ res' = StartWalk("symbols", "symbol", {}, {"NAME"})
            /\ last' = Pending("symbols", "symbol")
       ELSE IF arg.t = "int"
       THEN /\ res' = StartWalk("symbols", "symbol", {}, {"ADDR"})
            /\ last' = Pending("symbols", "symbol")
       ELSE /\ res' = NoWalk
            /\ last' = [op |-> "symbols", which |-> "symbol", err |-> TypeError,
                        args |-> <<>>]
    /\ UNCHANGED <<chains, objects, refcnt, modules, segments, host>>

(***************************************************************************)
(* The native module registry (section 4.2 of the specification).  A       *)
(* module is identified by its kind, its name and its address or id (info; *)
(* the main module by its name alone).                                     *)
(***************************************************************************)
ModuleKinds == {"main", "shared_library", "vdso", "relocatable", "extra"}
ModuleNames == {"m", "n"}
\* name.path == NULL: no name given
NoName == "<NULL>"
\* a NULL struct drgn_module *
NoModule ==
    [kind |-> "", name |-> NoName, info |-> 0, prog |-> "", range |-> <<>>,
     status |-> "", blobs |-> 0]

\* a module just created: no address range, no debug info
NewModule(kind, name, info) ==
    [kind |-> kind, name |-> name, info |-> info, prog |-> "self", range |-> <<>>,
     status |-> "none", blobs |-> 0]

ModuleId(m) == <<m.kind, m.name, m.info>>

\* find(kind-specific key)
drgn_module_find(mods, kind, name, info) ==
    LET found == {m \in mods : m.kind = kind /\ m.name = name /\ m.info = info}
    IN  IF found = {} THEN NoModule ELSE CHOOSE m \in found : TRUE

\* the main module, if it has this name or no name is asked for
drgn_module_find_main(mods, name) ==
    LET found == {m \in mods : m.kind = "main" /\ (name = NoName \/ m.name = name)}
    IN  IF found = {} THEN NoModule ELSE CHOOSE m \in found : TRUE

\* find_or_create(kind, identity fields) -> (Module, created); created is
\* stored through new_ret as "true" or "false" unless the caller passes NULL,
\* and is then Unreported
NULL == "NULL"
Unreported == "unreported"

drgn_module_find_or_create(mods, kind, name, info, new_ret) ==
    LET m == drgn_module_find(mods, kind, name, info)
        n == NewModule(kind, name, info)
    IN  IF m # NoModule
        THEN [err |-> OK, module |-> m, modules |-> mods,
              new |-> IF new_ret = NULL THEN Unreported ELSE "false"]
        ELSE [err |-> OK, module |-> n, modules |-> mods \cup {n},
              new |-> IF new_ret = NULL THEN Unreported ELSE "true"]

\* at most one main module: a second create with a different name is an error
drgn_module_find_or_create_main(mods, name, new_ret) ==
    IF \E m \in mods : m.kind = "main" /\ m.name # name
    THEN [err |-> DRGN_ERROR_INVALID_ARGUMENT, module |-> NoModule, modules |-> mods,
          new |-> Unreported]
    ELSE drgn_module_find_or_create(mods, "main", name, 0, new_ret)

\* a module of this name
drgn_module_find_by_name(mods, name) ==
    LET found == {m \in mods : m.name = name}
    IN  IF found = {} THEN NoModule ELSE CHOOSE m \in found : TRUE

\* a module whose mapped range [start, end) contains the address
drgn_module_find_by_address(mods, address) ==
    LET found == {m \in mods : m.range # <<>> /\ m.range[1] <= address
                                /\ address < m.range[2]}
    IN  IF found = {} THEN NoModule ELSE CHOOSE m \in found : TRUE

(***************************************************************************)
(* Program_main_module, Program_shared_library_module, Program_vdso_module, *)
(* Program_relocatable_module, Program_extra_module, Program_module.       *)
(* Each returns the error, the Module handed back and the registry.        *)
(***************************************************************************)
LookupError == "LookupError"

ModuleRet(err, module, mods) ==
    [err |-> err, module |-> module, modules |-> mods, created |-> Unreported]

Module_wrap_find_NullIsNone(module, mods) == ModuleRet(OK, module, mods)

Module_wrap_find(module, mods) ==
    IF module # NoModule THEN ModuleRet(OK, module, mods)
    ELSE ModuleRet(LookupError, NoModule, mods)

MainModule_NoNameCheck(mods, name, create) ==
    IF create
    THEN LET r == drgn_module_find_or_create_main(mods, name, NULL) IN
         IF r.err # OK THEN ModuleRet(r.err, NoModule, mods)
         ELSE [ModuleRet(OK, r.module, r.modules) EXCEPT !.created = r.new]
    ELSE Module_wrap_find(drgn_module_find_main(mods, name), mods)

MainModule(mods, name, create) ==
    IF create
    THEN IF name = NoName THEN ModuleRet(TypeError, NoModule, mods)
         ELSE LET r == drgn_module_find_or_create_main(mods, name, NULL) IN
              IF r.err # OK THEN ModuleRet(r.err, NoModule, mods)
              ELSE [ModuleRet(OK, r.module, r.modules) EXCEPT !.created = r.new]
    ELSE Module_wrap_find(drgn_module_find_main(mods, name), mods)

KindModule_IgnoresInfo(mods, kind, name, info, create) ==
    IF create
    THEN LET r == drgn_module_find_or_create(mods, kind, name, 0, NULL) IN
         IF r.err # OK THEN ModuleRet(r.err, NoModule, mods)
         ELSE [ModuleRet(OK, r.module, r.modules) EXCEPT !.created = r.new]
    ELSE Module_wrap_find(drgn_module_find(mods, kind, name, info), mods)

\* the same function for the kinds shared_library, vdso, relocatable, extra
KindModule(mods, kind, name, info, create) ==
    IF create
    THEN LET r == drgn_module_find_or_create(mods, kind, name, info, NULL) IN
         IF r.err # OK THEN ModuleRet(r.err, NoModule, mods)
         ELSE [ModuleRet(OK, r.module, r.modules) EXCEPT !.created = r.new]
    ELSE Module_wrap_find(drgn_module_find(mods, kind, name, info), mods)

FindModule(mods, arg) ==
    IF arg.t = "str" THEN Module_wrap_find(drgn_module_find_by_name(mods, arg.v), mods)
    ELSE IF arg.t # "int" THEN ModuleRet(TypeError, NoModule, mods)
    ELSE Module_wrap_find(drgn_module_find_by_address(mods, arg.v), mods)

\* the registry may hold MaxModules modules
RoomFor(r) == Cardinality(r.modules) <= MaxModules

Program_main_module(name, create) ==
    /\ ~res.active
    /\ LET r == MainModule(modules, name, create)
       IN  /\ RoomFor(r)
           /\ modules' = r.modules
           /\ last' = [op |-> "main_module", which |-> "main", err |-> r.err,
                      args |-> <<name, 0, create, r.module, r.created>>]
    /\ res' = NoWalk
    /\ UNCHANGED <<chains, objects, refcnt, segments, host>>

Program_kind_module(kind, name, info, create) ==
    /\ ~res.active
    /\ LET r == KindModule(modules, kind, name, info, create)
       IN  /\ RoomFor(r)
           /\ modules' = r.modules
           /\ last' = [op |-> "kind_module", which |-> kind, err |-> r.err,
                      args |-> <<name, info, create, r.module, r.created>>]
    /\ res' = NoWalk
    /\ UNCHANGED <<chains, objects, refcnt, segments, host>>

Program_module(arg) ==
    /\ ~res.active
    /\ LET r == FindModule(modules, arg)
       IN  /\ modules' = r.modules
           /\ last' = [op |-> "module", which |-> "", err |-> r.err,
                      args |-> <<arg, 0, FALSE, r.module, r.created>>]
    /\ res' = NoWalk
    /\ UNCHANGED <<chains, objects, refcnt, segments, host>>

\* Module.address_range = (start, end), of the Module wrapper
Module_set_address_range(m, range) ==
    /\ ~res.active
    /\ m \in modules
    /\ modules' = (modules \ {m}) \cup {[m EXCEPT !.range = range]}
    /\ last' = [op |-> "address_range", which |-> m.kind, err |-> OK,
               args |-> <<m.name, m.info, FALSE, [m EXCEPT !.range = range], Unreported>>]
    /\ res' = NoWalk
    /\ UNCHANGED <<chains, objects, refcnt, segments, host>>

(***************************************************************************)
(* Memory segments and reads (section 4.1 of the specification).  A        *)
(* segment is [address, address + size) of the virtual or the physical     *)
(* address space with the callable that produces its bytes.                *)
(***************************************************************************)
Unmapped == "Unmapped"

\* what a read_fn callable may return for one call
MemRets == {"bytes", "short", "long", "notbuffer", "raise"}

\* the byte the callable fn holds for an address
ByteOf(fn, address) == <<fn, address>>

\* the object the callable returns: a buffer as long as asked, a buffer one
\* byte short, a buffer one byte longer, an object without the buffer
\* protocol, or NULL with an exception set
CallReadFn(fn, address, count, ret) ==
    IF ret = "raise" THEN PyRaise
    ELSE IF ret = "notbuffer" THEN PyLong
    ELSE LET len == IF ret = "short" THEN count - 1
                    ELSE IF ret = "long" THEN count + 1 ELSE count
         IN  PyObj("bytes", "", "", [i \in 1 .. len |-> ByteOf(fn, address + i - 1)])

MemRet(err, buf, calls) == [err |-> err, buf |-> buf, calls |-> calls]

py_memory_read_fn_NoLengthCheck(address, count, offset, arg, physical, ret) ==
    LET obj == CallReadFn(arg, address, count, ret)
        calls == <<[fn |-> arg, address |-> address, count |-> count,
                    offset |-> offset, physical |-> physical]>>
    IN  IF obj = PyRaise THEN MemRet(drgn_error_from_python(CallbackException), <<>>, calls)
        ELSE IF obj.t # "bytes" THEN MemRet(drgn_error_from_python(TypeError), <<>>, calls)
        ELSE MemRet(OK, obj.items, calls)

\* Variant of py_memory_read_fn that copies into the destination before it
\* compares the lengths.
py_memory_read_fn_CopyFirst(address, count, offset, arg, physical, ret) ==
    LET obj == CallReadFn(arg, address, count, ret)
        calls == <<[fn |-> arg, address |-> address, count |-> count,
                    offset |-> offset, physical |-> physical]>>
    IN  IF obj = PyRaise THEN MemRet(drgn_error_from_python(CallbackException), <<>>, calls)
        ELSE IF obj.t # "bytes" THEN MemRet(drgn_error_from_python(TypeError), <<>>, calls)
        ELSE IF Len(obj.items) # count
        THEN MemRet(drgn_error_from_python(ValueError), obj.items, calls)
        ELSE MemRet(OK, obj.items, calls)

py_memory_read_fn(address, count, offset, arg, physical, ret) ==
    LET obj == CallReadFn(arg, address, count, ret)
        calls == <<[fn |-> arg, address |-> address, count |-> count,
                    offset |-> offset, physical |-> physical]>>
    IN  IF obj = PyRaise THEN MemRet(drgn_error_from_python(CallbackException), <<>>, calls)
        ELSE IF obj.t # "bytes" THEN MemRet(drgn_error_from_python(TypeError), <<>>, calls)
        ELSE IF Len(obj.items) # count
        THEN MemRet(drgn_error_from_python(ValueError), <<>>, calls)
        ELSE MemRet(OK, obj.items, calls)

drgn_program_add_memory_segment(segs, address, size, arg, physical) ==
    Append(segs, [address |-> address, size |-> size, read_fn |-> arg,
                  physical |-> physical])

\* the segments of the address space whose range contains [address, address + size)
Covering(segs, address, size, physical) ==
    {i \in DOMAIN segs :
        /\ segs[i].physical = physical
        /\ segs[i].address <= address
        /\ address + size <= segs[i].address + segs[i].size}

\* the outcomes of a read: a containing segment serves it through its
\* callback; without one the read is unmapped and no callback runs
drgn_program_read_memory(segs, address, size, physical, ret) ==
    IF Covering(segs, address, size, physical) = {} THEN {MemRet(Unmapped, <<>>, <<>>)}
    ELSE {py_memory_read_fn(address, size, address - segs[i].address,
                            segs[i].read_fn, physical, ret) :
            i \in Covering(segs, address, size, physical)}

ReadMemory_OneByte(segs, address, size, physical, ret) ==
    IF size < 0 THEN {MemRet(ValueError, <<>>, <<>>)}
    ELSE drgn_program_read_memory(segs, address, 1, physical, ret)

ReadMemory(segs, address, size, physical, ret) ==
    IF size < 0 THEN {MemRet(ValueError, <<>>, <<>>)}
    ELSE drgn_program_read_memory(segs, address, size, physical, ret)

Program_add_memory_segment(address, size, read_fn, physical) ==
    /\ ~res.active
    /\ Len(segments) < MaxSegments
    /\ IF ~PyCallable_Check(read_fn)
       THEN /\ last' = [op |-> "add_memory_segment", which |-> "", err |-> TypeError,
                       args |-> <<address, size, physical>>]
            /\ UNCHANGED <<objects, refcnt, segments>>
       ELSE /\ objects' = Program_hold_object(objects, PyCallable(read_fn))
            /\ refcnt' = Py_INCREF(refcnt, {PyCallable(read_fn)} \ objects)
            /\ segments' = drgn_program_add_memory_segment(segments, address, size,
                                                           read_fn, physical)
            /\ last' = [op |-> "add_memory_segment", which |-> "", err |-> OK,
                       args |-> <<address, size, physical>>]
    /\ res' = NoWalk
    /\ UNCHANGED <<chains, modules, host>>

Program_read(address, size, physical, ret) ==
    /\ ~res.active
    /\ \E r \in ReadMemory(segments, address, size, physical, ret) :
        last' = [op |-> "read", which |-> "", err |-> r.err,
                args |-> <<address, size, physical, r.buf, r.calls,
                           IF r.calls = <<>> THEN "" ELSE ret>>]
    /\ res' = NoWalk
    /\ UNCHANGED <<chains, objects, refcnt, modules, segments, host>>

(***************************************************************************)
(* Arguments that belong to a Program: Module, Type and Object values of   *)
(* this Program ("self") or of another one ("other"), and the operations   *)
(* that take them: Program_type_arg, Program_linux_kernel_loadable_module, *)
(* Program_load_module_debug_info, Program_find_standard_debug_info,       *)
(* Program_stack_trace.  The debug-info loader follows section 4.4.        *)
(***************************************************************************)
\* the Module object of a module
Module_wrap(m) == PyObj("Module", m.prog, "", ModuleId(m))

\* a module of another Program
ForeignModule == [NewModule("extra", "m", 0) EXCEPT !.prog = "other"]

\* what the finders come up with for a module: a file that parses or one
\* that does not
FileVerdicts == {"valid", "corrupt"}

\* load(modules): every listed module without debug info gets the blob parsed
\* from its file, or is recorded as failed and the others go on; a module
\* that has its debug info is left as it is
drgn_load_module_debug_info_Reparse(mods, ids, files) ==
    {IF ModuleId(m) \notin ids THEN m
     ELSE IF files[ModuleId(m)] = "valid"
     THEN [m EXCEPT !.status = "loaded", !.blobs = @ + 1]
     ELSE [m EXCEPT !.status = "failed"] : m \in mods}

drgn_load_module_debug_info(mods, ids, files) ==
    {IF ModuleId(m) \notin ids \/ m.status = "loaded" THEN m
     ELSE IF files[ModuleId(m)] = "valid"
     THEN [m EXCEPT !.status = "loaded", !.blobs = @ + 1]
     ELSE [m EXCEPT !.status = "failed"] : m \in mods}

ArgRet(err, native, mods) == [err |-> err, native |-> native, modules |-> mods]

CheckModules_FirstOnly(items) ==
    IF items = <<>> THEN OK
    ELSE IF items[1].t # "Module" THEN TypeError
    ELSE IF items[1].prog # "self" THEN ValueError
    ELSE OK

\* the loop over the items: the first item that is no Module or is the Module
\* of another Program ends the call
CheckModules(items) ==
    LET bad == {i \in DOMAIN items : items[i].t # "Module" \/ items[i].prog # "self"}
        i == CHOOSE k \in bad : \A j \in bad : k <= j
    IN  IF bad = {} THEN OK
        ELSE IF items[i].t # "Module" THEN TypeError
        ELSE ValueError

LoadModuleDebugInfo_FirstOnly(mods, items, files) ==
    IF CheckModules(items) # OK THEN ArgRet(CheckModules(items), FALSE, mods)
    ELSE ArgRet(OK, TRUE,
                drgn_load_module_debug_info(
                    mods, {items[i].items : i \in DOMAIN items \cap {1}}, files))

LoadModuleDebugInfo(mods, items, files) ==
    IF CheckModules(items) # OK THEN ArgRet(CheckModules(items), FALSE, mods)
    ELSE ArgRet(OK, TRUE,
                drgn_load_module_debug_info(
                    mods, {items[i].items : i \in DOMAIN items}, files))

FindStandardDebugInfo(mods, items, options_obj, files) ==
    IF CheckModules(items) # OK THEN ArgRet(CheckModules(items), FALSE, mods)
    ELSE IF options_obj # Py_None /\ options_obj.t # "DebugInfoOptions"
    THEN ArgRet(TypeError, FALSE, mods)
    ELSE ArgRet(OK, TRUE,
                drgn_load_module_debug_info(
                    mods, {items[i].items : i \in DOMAIN items}, files))

LoadedIds(mods) == {ModuleId(m) : m \in {n \in mods : n.status = "loaded"}}

Program_load_module_debug_info(items, files) ==
    /\ ~res.active
    /\ LET r == LoadModuleDebugInfo(modules, items, files)
       IN  /\ modules' = r.modules
           /\ last' = [op |-> "load_module_debug_info", which |-> "", err |-> r.err,
                      args |-> <<r.native, items, files, LoadedIds(modules)>>]
    /\ res' = NoWalk
    /\ UNCHANGED <<chains, objects, refcnt, segments, host>>

Program_find_standard_debug_info(items, options_obj, files) ==
    /\ ~res.active
    /\ LET r == FindStandardDebugInfo(modules, items, options_obj, files)
       IN  /\ modules' = r.modules
           /\ last' = [op |-> "find_standard_debug_info", which |-> "", err |-> r.err,
                      args |-> <<r.native, items, files, LoadedIds(modules)>>]
    /\ res' = NoWalk
    /\ UNCHANGED <<chains, objects, refcnt, segments, host>>

\* the native call takes the name of the module from the object
LinuxKernelLoadableModule(mods, module_obj, create) ==
    IF module_obj.prog # "self" THEN ArgRet(ValueError, FALSE, mods)
    ELSE LET r == KindModule(mods, "linux_kernel_loadable", module_obj.v, 0, create)
         IN  ArgRet(r.err, TRUE, r.modules)

Program_linux_kernel_loadable_module(module_obj, create) ==
    /\ ~res.active
    /\ LET r == LinuxKernelLoadableModule(modules, module_obj, create)
       IN  /\ RoomFor(r)
           /\ modules' = r.modules
           /\ last' = [op |-> "linux_kernel_loadable_module", which |-> "",
                      err |-> r.err, args |-> <<r.native, <<module_obj>>>>]
    /\ res' = NoWalk
    /\ UNCHANGED <<chains, objects, refcnt, segments, host>>

\* Program_type_arg: a Type of this Program is taken as it is, a str is looked
\* up by the native drgn_program_find_type
Program_type_arg(type_obj, can_be_none, kinds) ==
    /\ ~res.active
    /\ IF type_obj.t = "Type"
       THEN /\ res' = NoWalk
            /\ last' = [op |-> "type_arg", which |-> "type",
                        err |-> IF type_obj.prog # "self" THEN ValueError ELSE OK,
                        args |-> <<FALSE, <<type_obj>>>>]
       ELSE IF type_obj.t = "str"
       THEN /\ res' = StartWalk("type_arg", "type", kinds, {})
            /\ last' = [Pending("type_arg", "type") EXCEPT !.args = <<TRUE, <<type_obj>>>>]
       ELSE /\ res' = NoWalk
            /\ last' = [op |-> "type_arg", which |-> "type",
                        err |-> IF can_be_none /\ type_obj = Py_None THEN OK
                                ELSE TypeError,
                        args |-> <<FALSE, <<type_obj>>>>]
    /\ UNCHANGED <<chains, objects, refcnt, modules, segments, host>>

\* what drgn_object_stack_trace and drgn_program_stack_trace may return
StackTraceRets == {OK, DRGN_ERROR_LOOKUP}

\* an Object goes to drgn_object_stack_trace, anything else is a thread id
Program_stack_trace(thread, ret) ==
    /\ ~res.active
    /\ last' = IF thread.t = "Object"
               THEN [op |-> "stack_trace", which |-> "", err |-> ret,
                     args |-> <<TRUE, <<thread>>>>]
               ELSE IF thread.t # "int"
               THEN [op |-> "stack_trace", which |-> "", err |-> TypeError,
                     args |-> <<FALSE, <<thread>>>>]
               ELSE [op |-> "stack_trace", which |-> "", err |-> ret,
                     args |-> <<TRUE, <<thread>>>>]
    /\ res' = NoWalk
    /\ UNCHANGED <<chains, objects, refcnt, modules, segments, host>>

(***************************************************************************)
(* Specification                                                           *)
(***************************************************************************)
Init ==
    /\ chains = [w \in Which |-> EmptyList]
    /\ objects = {}
    /\ res = NoWalk
    /\ modules = {}
    /\ segments = <<>>
    /\ last = [op |-> "Program", which |-> "", err |-> OK, args |-> <<>>]
    /\ programs = {"self"}
    /\ cached_log_level = DRGN_LOG_WARNING
    /\ cached_enable_progress_bar = FALSE
    /\ progs = [p \in ProgIds |->
                    IF p = "self"
                    THEN [state |-> "live", log_level |-> DRGN_LOG_WARNING,
                          progress_file |-> FALSE, cleared |-> FALSE]
                    ELSE NoProgram]
    /\ refcnt = <<>>
    /\ gil = NoThread
    /\ threads = [t \in Threads |-> IdleThread]
    /\ stack = <<>>

\* The registrations the callers of this workload ask for: on the type chain
\* three names, the third with either callable, at every enable_index; on
\* each other chain one name, left disabled or enabled with -1.  And the
\* few lists of names they hand to set_enabled_*_finders.
Registrations(w) ==
    IF w = "type"
    THEN {<<"a", "f">>, <<"b", "f">>, <<"c", "f">>, <<"c", "g">>, <<"a", NotCallable>>}
         \X EnableIndexObjs
    ELSE {<<"a", "f">>} \X {PyNone, PyInt(-1)}

NamesObjs(w) ==
    {[isseq |-> TRUE, items |-> s] :
        s \in IF w = "type" THEN {<<>>, <<"c">>, <<"b", "a">>, <<"a", "a">>}
              ELSE {<<>>, <<"a">>}}

Register ==
    \E w \in Which :
        \E reg \in Registrations(w) :
            Program_register_finder(w, reg[1][1], reg[1][2], reg[2])

AddTypeFinder ==
    \E fn \in {"f", NotCallable}, rnd \in Randoms : Program_add_type_finder(fn, rnd)

AddObjectFinder ==
    \E fn \in {"f", NotCallable}, rnd \in Randoms : Program_add_object_finder(fn, rnd)

SetEnabled ==
    \E w \in Which :
        \E names_obj \in NamesObjs(w) : Program_set_enabled_finders(w, names_obj)

Next == Register \/ AddTypeFinder \/ AddObjectFinder \/ SetEnabled

Spec == Init /\ [][Next]_vars

(***************************************************************************)
(* Specification of enabling: a few finders are registered, then the       *)
(* enabled finders are set to every short list of names, of registered and *)
(* unknown names, with repeats, with an item that is not a str, and to an   *)
(* object that is not a sequence.                                          *)
(***************************************************************************)
EnableRegistrations(w) ==
    IF w = "type" THEN {<<"a", "f">>, <<"b", "f">>, <<"c", "f">>} \X {PyNone, PyInt(-1)}
    ELSE IF w = "object" THEN {<<"a", "f">>} \X {PyInt(-1)}
    ELSE {}

\* the orders of three names
Permutations3(S) ==
    {t \in S \X S \X S : t[1] # t[2] /\ t[1] # t[3] /\ t[2] # t[3]}

EnableNamesObjs(w) ==
    IF w = "type"
    THEN {[isseq |-> TRUE, items |-> s] :
             s \in ShortLists(Names \cup {NotStr}) \cup Permutations3(Names)}
         \cup {[isseq |-> FALSE, items |-> <<>>]}
    ELSE IF w = "object"
    THEN {[isseq |-> TRUE, items |-> s] : s \in {<<>>, <<"a">>, <<"b">>}}
    ELSE {}

EnableRegister ==
    \E w \in Which :
        \E reg \in EnableRegistrations(w) :
            Program_register_finder(w, reg[1][1], reg[1][2], reg[2])

EnableSetEnabled ==
    \E w \in Which :
        \E names_obj \in EnableNamesObjs(w) : Program_set_enabled_finders(w, names_obj)

NextEnable == EnableRegister \/ EnableSetEnabled

SpecEnable == Init /\ [][NextEnable]_vars

(***************************************************************************)
(* Specification of lookups: finders are registered and enabled, then      *)
(* types, objects and symbols are looked up through the chains.            *)
(***************************************************************************)
FindRegistrations(w) ==
    IF w = "type" THEN {<<"a", "f">>, <<"b", "f">>, <<"c", "f">>} \X {PyNone, PyInt(-1)}
    ELSE IF w = "object" THEN {<<"a", "f">>, <<"b", "f">>} \X {PyInt(-1)}
    ELSE IF w = "symbol" THEN {<<"a", "f">>, <<"b", SymbolIndexObj>>} \X {PyInt(-1)}
    ELSE {}

FindNamesObjs(w) ==
    IF w = "type" THEN {[isseq |-> TRUE, items |-> s] : s \in {<<"c">>, <<"b", "a">>}}
    ELSE {}

FindRegister ==
    \E w \in Which :
        \E reg \in FindRegistrations(w) :
            Program_register_finder(w, reg[1][1], reg[1][2], reg[2])

FindAddTypeFinder == \E rnd \in Randoms : Program_add_type_finder("f", rnd)

FindSetEnabled ==
    \E w \in Which :
        \E names_obj \in FindNamesObjs(w) : Program_set_enabled_finders(w, names_obj)

FindType ==
    \E name_or_type \in {PyStr, PyLong, DrgnType("self", "X"), DrgnType("other", "X")},
       kinds \in KindSets :
        Program_find_type(name_or_type, kinds)

FindObject == \E name_obj \in {PyStr, PyLong} : Program_find_object(name_obj)

FindSymbol == \E arg \in {PyStr, PyLong, Py_None} : Program_symbol(arg)

FindSymbols == \E arg \in {PyStr, Py_None, PyList(<<>>)} : Program_symbols(arg)

ChainInvoke ==
    /\ res.active
    /\ \E rets \in UNION {RetsFor(h, res.kinds) : h \in chains[res.which].handlers} :
           Chain_invoke(rets)

NextFind ==
    \/ FindRegister
    \/ FindAddTypeFinder
    \/ FindSetEnabled
    \/ FindType
    \/ FindObject
    \/ FindSymbol
    \/ FindSymbols
    \/ ChainInvoke
    \/ Chain_exhausted

SpecFind == Init /\ [][NextFind]_vars

(***************************************************************************)
(* Specification of the module registry: modules of every kind are found,  *)
(* created and given address ranges, and looked up by name and address.    *)
(***************************************************************************)

\* name and address or id the callers give for a kind
ModuleKeys(kind) ==
    IF kind = "shared_library" THEN {<<"m", 0>>, <<"m", 1>>, <<"n", 0>>}
    ELSE IF kind = "extra" THEN {<<"m", 0>>, <<"m", 1>>}
    ELSE {<<"m", 0>>}

NextModule ==
    \/ \E name \in ModuleNames \cup {NoName}, create \in BOOLEAN :
            Program_main_module(name, create)
    \/ \E kind \in ModuleKinds \ {"main"} :
            \E key \in ModuleKeys(kind), create \in BOOLEAN :
                Program_kind_module(kind, key[1], key[2], create)
    \/ \E name \in ModuleNames : Program_module([t |-> "str", v |-> name])
    \/ \E arg \in {PyInt(a) : a \in 0 .. 3} \cup {PyNone} : Program_module(arg)
    \/ \E m \in modules : Module_set_address_range(m, <<1, 3>>)

SpecModule == Init /\ [][NextModule]_vars

(***************************************************************************)
(* Specification of memory: segments are added, adjacent, repeated and in  *)
(* both address spaces, and ranges inside, across and outside them are     *)
(* read.                                                                   *)
(***************************************************************************)
NextMemory ==
    \/ \E range \in {<<0, 2>>, <<2, 2>>}, read_fn \in Callables \cup {NotCallable},
          physical \in BOOLEAN :
            Program_add_memory_segment(range[1], range[2], read_fn, physical)
    \/ \E address \in 0 .. 3, size \in {-1, 1, 2}, physical \in BOOLEAN,
          ret \in MemRets :
            Program_read(address, size, physical, ret)

SpecMemory == Init /\ [][NextMemory]_vars

(***************************************************************************)
(* Specification of object lookups by name: object finders are registered, *)
(* and names are looked up with find_object, program[name] and             *)
(* name in program.                                                        *)
(***************************************************************************)
ObjectNames == {PyUnicode("x"), PyUnicode("y")}

NextObject ==
    \/ \E name \in {"a", "b"}, enable_index_obj \in {PyNone, PyInt(-1), PyInt(0)} :
            Program_register_finder("object", name, "f", enable_index_obj)
    \/ \E name_obj \in ObjectNames \cup {PyLong} : Program_find_object(name_obj)
    \/ \E key \in ObjectNames \cup {PyLong} : Program_subscript(key)
    \/ \E key \in ObjectNames \cup {PyLong} : Program_contains(key)
    \/ ChainInvoke
    \/ Chain_exhausted

SpecObject == Init /\ [][NextObject]_vars

(***************************************************************************)
(* Specification of the operations that take values of a Program: modules  *)
(* are created and their debug info is loaded, with Modules, Types and     *)
(* Objects of this Program and of another one as arguments.                *)
(***************************************************************************)
\* lists of at most two Modules, of the registry or of another Program, and
\* one that starts with an int
ModuleLists ==
    ShortLists({Module_wrap(m) : m \in modules} \cup {Module_wrap(ForeignModule)})
        \cup {<<PyLong, Module_wrap(ForeignModule)>>}

NextDebug ==
    \/ Program_main_module("m", TRUE)
    \/ Program_kind_module("extra", "m", 0, TRUE)
    \/ \E items \in ModuleLists :
            \E files \in [{items[i].items : i \in DOMAIN items} -> FileVerdicts] :
                Program_load_module_debug_info(items, files)
    \/ \E items \in ModuleLists, options_obj \in {Py_None, PyLong} :
            Program_find_standard_debug_info(
                items, options_obj, [id \in {items[i].items : i \in DOMAIN items} |-> "valid"])
    \/ \E module_obj \in {DrgnObject("self", "n"), DrgnObject("other", "n")},
          create \in BOOLEAN :
            Program_linux_kernel_loadable_module(module_obj, create)
    \/ \E type_obj \in {DrgnType("self", "X"), DrgnType("other", "X"), PyStr, Py_None,
                        PyLong}, can_be_none \in BOOLEAN :
            Program_type_arg(type_obj, can_be_none, {1})
    \/ \E name_or_type \in {DrgnType("self", "X"), DrgnType("other", "X")} :
            Program_find_type(name_or_type, {1})
    \/ \E thread \in {DrgnObject("self", "t"), DrgnObject("other", "t"), PyLong, Py_None},
          ret \in StackTraceRets :
            Program_stack_trace(thread, ret)
    \/ Chain_exhausted

SpecDebug == Init /\ [][NextDebug]_vars

(***************************************************************************)
(* Properties of the finder chains.                                        *)
(***************************************************************************)
Range(seq) == {seq[i] : i \in 1 .. Len(seq)}

\* C1: set_enabled_*_finders(L), L without duplicates and naming only
\* registered finders, succeeds; afterwards enabled_*_finders() is L in L's
\* order, every registered finder not in L is disabled, and the registered
\* finders are the same.
C1_SetEnabledExact ==
    [][last'.op = "set_enabled" =>
       \A w \in {last'.which} : \A names_obj \in {last'.args[1]} :
         (/\ names_obj.isseq
          /\ IsDuplicateFree(names_obj.items)
          /\ Range(names_obj.items) \subseteq Program_registered_finders(w))
         => /\ last'.err = OK
            /\ Program_enabled_finders(w)' = names_obj.items
            /\ Program_registered_finders(w)' = Program_registered_finders(w)
            /\ \A n \in Program_registered_finders(w)' \ Range(names_obj.items) :
                   n \notin Range(Program_enabled_finders(w)')]_vars

\* C1 happens: with a, b and c registered, the type finders were set to b, a.
C1_Witness ==
    /\ last.op = "set_enabled" /\ last.which = "type" /\ last.err = OK
    /\ last.args[1].items = <<"b", "a">>
    /\ Program_enabled_finders("type") = <<"b", "a">>
    /\ Program_registered_finders("type") = {"a", "b", "c"}

\* C2: set_enabled_*_finders(L) where some name of L, the first or a later
\* one, is not registered fails and leaves the chain (registered and enabled
\* finders) and the held objects as they were.
C2_SetEnabledUnknownAtomic ==
    [][last'.op = "set_enabled" =>
       \A w \in {last'.which} : \A names_obj \in {last'.args[1]} :
         (/\ names_obj.isseq
          /\ Range(names_obj.items) \subseteq Names
          /\ \E i \in 1 .. Len(names_obj.items) :
                 names_obj.items[i] \notin Program_registered_finders(w))
         => /\ last'.err # OK
            /\ chains' = chains
            /\ objects' = objects]_vars

\* C2 happens: set_enabled_type_finders(["b", "c"]) was refused while a, b
\* were enabled and c, the second name, was unknown.
C2_Witness ==
    /\ last.op = "set_enabled" /\ last.which = "type"
    /\ last.err = DRGN_ERROR_INVALID_ARGUMENT
    /\ last.args[1].items = <<"b", "c">>
    /\ Program_enabled_finders("type") = <<"a", "b">>
    /\ "c" \notin Program_registered_finders("type")

\* C5: register_*_finder with a name the chain already has fails, leaves the
\* chain as it was (the entry keeps its callback and position) and does not
\* add the rejected callable to the held objects.
C5_RegisterDuplicateRefused ==
    [][last'.op = "register" =>
       \A w \in {last'.which} : \A reg \in {<<<<last'.args[1], last'.args[2]>>, last'.args[3]>>} :
         reg[1][1] \in Program_registered_finders(w)
         => /\ last'.err # OK
            /\ chains' = chains
            /\ objects' = objects]_vars

\* C5 happens: c, registered with callable f, was registered again with g,
\* which was refused; g is not held.
C5_Witness ==
    /\ last.op = "register" /\ last.which = "type"
    /\ last.err = DRGN_ERROR_INVALID_ARGUMENT
    /\ last.args[1] = "c" /\ last.args[2] = "g"
    /\ Handler(chains["type"], "c").arg.fn = "f"
    /\ \A o \in objects : o.fn # "g"

C7_RegisterAtIndex ==
    [][last'.op = "register" =>
       \A w \in {last'.which} : \A reg \in {<<<<last'.args[1], last'.args[2]>>, last'.args[3]>>} :
         (reg[2].t = "int" /\ reg[2].v >= 0 /\ last'.err = OK)
         => LET E == Program_enabled_finders(w)
                i == reg[2].v
            IN  /\ Program_enabled_finders(w)'
                       = IF i <= Len(E)
                         THEN SubSeq(E, 1, i) \o <<reg[1][1]>> \o SubSeq(E, i + 1, Len(E))
                         ELSE E \o <<reg[1][1]>>
                /\ Program_registered_finders(w)'
                       = Program_registered_finders(w) \cup {reg[1][1]}]_vars

\* C7 happens: c was registered at index 1 of two enabled finders.
C7_Witness ==
    /\ last.op = "register" /\ last.which = "type" /\ last.err = OK
    /\ last.args[1] = "c" /\ last.args[3] = PyInt(1)
    /\ Len(Program_enabled_finders("type")) = 3
    /\ Program_enabled_finders("type")[2] = "c"

C9_Inv ==
    \A w \in Which :
        /\ Cardinality(chains[w].handlers) = Cardinality(Program_registered_finders(w))
        /\ IsDuplicateFree(Program_enabled_finders(w))
        /\ Range(Program_enabled_finders(w)) \subseteq Program_registered_finders(w)

\* C9: in every state reached by register_*_finder, add_type_finder,
\* add_object_finder and set_enabled_*_finders, whatever names they are
\* given, each chain has no name registered twice, no name enabled twice and
\* only registered names enabled; and a call on one chain leaves the other
\* three chains as they were.
C9_ChainInvariants ==
    /\ []C9_Inv
    /\ [][\A w \in Which : w # last'.which => chains'[w] = chains[w]]_vars

\* C9 happens: set_enabled_type_finders was given a name twice while two
\* type finders were enabled and the object chain had a finder of its own.
C9_Witness ==
    /\ last.op = "set_enabled" /\ last.which = "type"
    /\ last.err = DRGN_ERROR_INVALID_ARGUMENT
    /\ last.args[1].items = <<"a", "a">>
    /\ Program_registered_finders("type") = {"a", "b"}
    /\ Len(Program_enabled_finders("type")) = 2
    /\ Program_registered_finders("object") # {}

(***************************************************************************)
(* Properties of lookups.  What a finder reports is read off what its      *)
(* Python callable handed back: None on every call is not-found, a Type or *)
(* Object of this program is found, anything else is an error.             *)
(***************************************************************************)
ReportsNotFound(e) == \A j \in 1 .. Len(e.rets) : e.rets[j] = Py_None

ReportsFound(e) ==
    /\ Len(e.rets) >= 1
    /\ \A j \in 1 .. Len(e.rets) - 1 : e.rets[j] = Py_None
    /\ e.rets[Len(e.rets)].t \in {"Type", "Object"}
    /\ e.rets[Len(e.rets)].prog = "self"

\* the callable raised, or handed back an object of the wrong kind or of
\* another program
ReportsError(which, e) ==
    \E j \in 1 .. Len(e.rets) :
        \/ e.rets[j] = PyRaise
        \/ which = "type" /\ e.rets[j].t \notin {"None", "Type"}
        \/ which = "object" /\ e.rets[j].t \notin {"None", "Object"}
        \/ which = "symbol" /\ e.rets[j].t # "list"
        \/ e.rets[j].prog = "other"

NameLookup == res.op \in {"find_type", "find_object"}

\* C3: a type or object lookup by name calls the enabled finders one at a
\* time in the order of enabled_*_finders(), the next one only after the one
\* before reported not-found; it returns what the first finder that reports
\* found returned and calls no finder after it; and it ends not-found exactly
\* when every enabled finder was called and reported not-found (also when
\* none is enabled).
C3_PriorityOrder ==
    NameLookup =>
        LET E == Program_enabled_finders(res.which)
            log == res.log
        IN  /\ Len(log) <= Len(E)
            /\ \A i \in 1 .. Len(log) : log[i].name = E[i]
            /\ \A i \in 1 .. Len(log) - 1 : ReportsNotFound(log[i])
            /\ res.active => \A i \in 1 .. Len(log) : ReportsNotFound(log[i])
            /\ \A i \in 1 .. Len(log) :
                   ReportsFound(log[i])
                   => /\ i = Len(log) /\ ~res.active /\ last.err = OK
                      /\ last.args = <<log[i].rets[Len(log[i].rets)].v>>
            /\ (~res.active /\ last.err = OK) => Len(log) >= 1 /\ ReportsFound(log[Len(log)])
            /\ ~res.active
               => ((last.err \in {DRGN_ERROR_LOOKUP, ObjectNotFoundError})
                   <=> (Len(log) = Len(E) /\ \A i \in 1 .. Len(log) : ReportsNotFound(log[i])))

\* C3 happens: with a, b, c enabled, a returned None, b returned type X, the
\* lookup returned X and c was not called.
C3_Witness ==
    /\ res.op = "find_type" /\ ~res.active
    /\ Program_enabled_finders("type") = <<"a", "b", "c">>
    /\ Len(res.log) = 2
    /\ res.log[1].rets = <<Py_None>>
    /\ res.log[2].rets = <<DrgnType("self", "X")>>
    /\ last.err = OK /\ last.args = <<"X">>

\* C4: when the callable of an enabled finder raises or hands back an object
\* of the wrong kind, or the finder fails in any other way, the walk stops
\* there: that finder is the last one called and the lookup returns exactly
\* the finder's error; and a lookup ends not-found only when no enabled
\* finder is left to call.
C4_ErrorAborts ==
    res.op # "" =>
        LET E == Program_enabled_finders(res.which)
            log == res.log
        IN  /\ \A i \in 1 .. Len(log) :
                   ReportsError(res.which, log[i]) => log[i].err \notin {OK, drgn_not_found}
            /\ \A i \in 1 .. Len(log) :
                   log[i].err \notin {OK, drgn_not_found}
                   => /\ i = Len(log) /\ ~res.active
                      /\ last.err = log[i].err
            /\ (~res.active /\ last.err \in {DRGN_ERROR_LOOKUP, ObjectNotFoundError})
               => Len(log) = Len(E)

\* C4 happens: with a, b, c enabled, a returned None and b an int; the lookup
\* raised TypeError and c was not called.
C4_Witness ==
    /\ res.op = "find_type" /\ ~res.active
    /\ Program_enabled_finders("type") = <<"a", "b", "c">>
    /\ Len(res.log) = 2
    /\ res.log[2].rets = <<PyLong>>
    /\ last.err = TypeError

\* C8: a successful register_*_finder with enable_index = None adds the name
\* to registered_*_finders() and leaves enabled_*_finders() as it was; a
\* registered finder that is not enabled becomes enabled only by
\* set_enabled_*_finders, and a lookup calls only enabled finders.
C8_RegisterDisabled ==
    /\ [][(last'.op = "register" /\ last'.err = OK /\ last'.args[3] = PyNone)
          => \A w \in {last'.which} : \A name \in {last'.args[1]} :
                 /\ Program_registered_finders(w)'
                        = Program_registered_finders(w) \cup {name}
                 /\ name \notin Program_registered_finders(w)
                 /\ Program_enabled_finders(w)' = Program_enabled_finders(w)]_vars
    /\ [][\A w \in Which :
            \A n \in Program_registered_finders(w) \ Range(Program_enabled_finders(w)) :
                n \in Range(Program_enabled_finders(w)') => last'.op = "set_enabled"]_vars
    /\ [](res.op # "" =>
            \A i \in 1 .. Len(res.log) :
                res.log[i].name \in Range(Program_enabled_finders(res.which)))

\* C8 happens: c was registered with None and never enabled; a lookup called
\* a and b, which reported not-found, and ended without calling c.
C8_Witness ==
    /\ res.op = "find_type" /\ ~res.active
    /\ Program_enabled_finders("type") = <<"a", "b">>
    /\ "c" \in Program_registered_finders("type")
    /\ Len(res.log) = 2
    /\ last.err = DRGN_ERROR_LOOKUP

IsSymbols(items) == \A k \in 1 .. Len(items) : items[k] # NotSymbol

\* C10: a Python symbol finder that hands back a sequence of two or more
\* symbols makes a lookup of exactly one symbol fail with
\* DRGN_ERROR_INVALID_ARGUMENT with none of them added to the result; for a
\* lookup of all symbols the same sequence is accepted and every symbol of
\* it is added; a sequence of no or one symbol is accepted by both.
C10_OneSymbolRequested ==
    res.which = "symbol" =>
        \A i \in 1 .. Len(res.log) :
            LET e == res.log[i] IN
            (Len(e.rets) = 1 /\ e.rets[1].t = "list" /\ IsSymbols(e.rets[1].items))
            => IF "ONE" \in res.flags /\ Len(e.rets[1].items) >= 2
               THEN /\ e.err = DRGN_ERROR_INVALID_ARGUMENT
                    /\ e.added = <<>>
                    /\ ~res.active /\ i = Len(res.log)
                    /\ last.err = DRGN_ERROR_INVALID_ARGUMENT
               ELSE /\ e.err = OK
                    /\ e.added = e.rets[1].items

\* C10 happens: a lookup of one symbol failed on a finder that returned two.
C10_Witness ==
    /\ res.op = "symbol" /\ ~res.active
    /\ Len(res.log) = 1
    /\ res.log[1].rets = <<PyList(<<"s1", "s2">>)>>
    /\ last.err = DRGN_ERROR_INVALID_ARGUMENT

\* Two symbols handed back for a lookup of all symbols are both in the result.
C10_WitnessAll ==
    /\ res.op = "symbols" /\ ~res.active
    /\ Len(res.log) = 1
    /\ res.log[1].rets = <<PyList(<<"s1", "s2">>)>>
    /\ last.err = OK /\ last.args = << <<"s1", "s2">> >>

(***************************************************************************)
(* Properties of the module registry.                                      *)
(***************************************************************************)
CreateOps == {"main_module", "kind_module"}

\* the modules of the registry with this kind, name and address or id
WithIdentity(mods, kind, name, info) ==
    {m \in mods : ModuleId(m) = <<kind, name, info>>}

UniqueIdentities == \A m, n \in modules : ModuleId(m) = ModuleId(n) => m = n

\* C11 as the specification states it: the second of two creates with the same
\* identity reports created = FALSE to its caller.  (A module with an address
\* range was in the registry before the create that returns it: a module is
\* created without one.)
C11_SecondReportsNotCreated ==
    (/\ last.op \in CreateOps
     /\ last.args[3]
     /\ last.err = OK
     /\ last.args[4].range # <<>>)
        => last.args[5] = "false"

\* C11: find-or-create is idempotent for every kind: a create whose identity is
\* in the registry returns that very module and leaves the registry as it is,
\* a create always returns the module of the requested identity, no two
\* modules share an identity; the call returns the Module alone and does not
\* report whether it created it.
C11_FindOrCreateIdempotent ==
    /\ []UniqueIdentities
    /\ [][(last'.op \in CreateOps /\ last'.args[3] /\ last'.err = OK) =>
            LET old == WithIdentity(modules, last'.which, last'.args[1], last'.args[2])
            IN  /\ ModuleId(last'.args[4])
                       = <<last'.which, last'.args[1], last'.args[2]>>
                /\ last'.args[4] \in modules'
                /\ last'.args[5] = Unreported
                /\ old # {} => (modules' = modules /\ last'.args[4] \in old)
                /\ old = {} => modules' = modules \cup {last'.args[4]}]_vars

C11_Witness ==
    /\ last.op = "kind_module"
    /\ last.which = "extra"
    /\ last.args[3]
    /\ last.err = OK
    /\ last.args[4].range # <<>>
    /\ Cardinality(modules) = 2

Mains(mods) == {m \in mods : m.kind = "main"}

\* C12: a program has at most one main module; main_module(create=True)
\* without a name is rejected and creates nothing; with a main module named N,
\* a create with N returns it and a create with another name fails, the
\* registry unchanged in both cases.
C12_OneMainModule ==
    /\ [](Cardinality(Mains(modules)) <= 1)
    /\ [][(last'.op = "main_module" /\ last'.args[3]) =>
            /\ last'.args[1] = NoName => (last'.err = TypeError /\ modules' = modules)
            /\ \A m \in Mains(modules) :
                /\ modules' = modules
                /\ last'.args[1] = m.name => (last'.err = OK /\ last'.args[4] = m)
                /\ last'.args[1] # m.name => last'.err # OK]_vars

C12_Witness ==
    /\ last.op = "main_module"
    /\ last.args[3]
    /\ last.args[1] = "n"
    /\ last.err = DRGN_ERROR_INVALID_ARGUMENT
    /\ \E m \in modules : m.kind = "main" /\ m.name = "m"

\* the modules a lookup without create may return
Matching(mods, op, which, key, info) ==
    IF op = "main_module"
    THEN {m \in Mains(mods) : key = NoName \/ m.name = key}
    ELSE IF op = "kind_module" THEN WithIdentity(mods, which, key, info)
    ELSE IF key.t = "str" THEN {m \in mods : m.name = key.v}
    ELSE {m \in mods : m.range # <<>> /\ m.range[1] <= key.v /\ key.v < m.range[2]}

\* C13: a lookup without create never adds a module: without a match it fails
\* with LookupError, with a match it returns an existing, matching module; the
\* registry is unchanged either way.
C13_LookupNeverCreates ==
    [][(/\ last'.op \in {"main_module", "kind_module", "module"}
        /\ ~last'.args[3]
        /\ last'.err # TypeError) =>
            LET match == Matching(modules, last'.op, last'.which,
                                  last'.args[1], last'.args[2])
            IN  /\ modules' = modules
                /\ match = {} => (last'.err = LookupError /\ last'.args[4] = NoModule)
                /\ match # {} => (last'.err = OK /\ last'.args[4] \in match)]_vars

C13_Witness ==
    /\ last.op = "module"
    /\ last.args[1] = PyInt(3)
    /\ last.err = LookupError
    /\ \E m \in modules : m.range = <<1, 3>>

(***************************************************************************)
(* Properties of memory reads.                                             *)
(***************************************************************************)
\* the segments of one address space do not overlap
Disjoint(segs, physical) ==
    \A i, j \in DOMAIN segs :
        (i # j /\ segs[i].physical = physical /\ segs[j].physical = physical) =>
            \/ segs[i].address + segs[i].size <= segs[j].address
            \/ segs[j].address + segs[j].size <= segs[i].address

\* C14: with disjoint segments, a read inside one segment of the requested
\* address space, when it succeeds, returns exactly the bytes of that
\* segment's callback, which alone is called, for the address, the size, the
\* offset into the segment and the address space of the read; no segment of
\* the other address space is consulted; a read no segment covers fails with
\* Unmapped and no callback is called.
C14_ReadFromOneSegment ==
    (last.op = "read" /\ last.args[2] >= 0 /\ Disjoint(segments, last.args[3])) =>
        LET address == last.args[1]
            size == last.args[2]
            physical == last.args[3]
            cover == Covering(segments, address, size, physical)
        IN  /\ \A k \in DOMAIN last.args[5] :
                \E i \in cover :
                    last.args[5][k] = [fn |-> segments[i].read_fn,
                                       address |-> address, count |-> size,
                                       offset |-> address - segments[i].address,
                                       physical |-> physical]
            /\ cover = {} => (last.err = Unmapped /\ last.args[5] = <<>>)
            /\ cover # {} =>
                /\ Cardinality(cover) = 1
                /\ Len(last.args[5]) = 1
                /\ last.err # Unmapped
                /\ last.err = OK =>
                    \A i \in cover :
                        last.args[4] = [b \in 1 .. size |->
                                            ByteOf(segments[i].read_fn, address + b - 1)]

C14_Witness ==
    /\ last.op = "read"
    /\ last.err = OK
    /\ last.args[1] = 3 /\ last.args[2] = 1 /\ last.args[3]
    /\ Len(segments) = 2
    /\ segments[1].physical /\ ~segments[2].physical
    /\ segments[1].address = 2 /\ segments[2].address = 2
    /\ segments[1].read_fn # segments[2].read_fn

\* the segments of the address space that hold the first byte of the read
HoldingStart(segs, address, physical) ==
    {i \in DOMAIN segs : /\ segs[i].physical = physical
                         /\ segs[i].address <= address
                         /\ address < segs[i].address + segs[i].size}

\* C15: a read whose range is not contained in a single segment of the
\* requested address space fails with Unmapped and returns no bytes, also when
\* it starts inside a segment and ends outside it or in an adjacent segment.
C15_PartialReadUnmapped ==
    (/\ last.op = "read"
     /\ last.args[2] >= 0
     /\ \A i \in HoldingStart(segments, last.args[1], last.args[3]) :
            last.args[1] + last.args[2] > segments[i].address + segments[i].size)
        => (last.err = Unmapped /\ last.args[4] = <<>> /\ last.args[5] = <<>>)

C15_Witness ==
    /\ last.op = "read"
    /\ last.err = Unmapped
    /\ last.args[1] = 1 /\ last.args[2] = 2 /\ ~last.args[3]
    /\ Len(segments) = 2
    /\ ~segments[1].physical /\ ~segments[2].physical
    /\ segments[1].address = 0 /\ segments[1].size = 2
    /\ segments[2].address = 2 /\ segments[2].size = 2

(***************************************************************************)
(* Properties of object lookups by name.                                   *)
(***************************************************************************)
\* a lookup of the object chain has returned
ObjectLookupDone(op) == ~res.active /\ res.op = op /\ last.op = op

\* the error the native lookup returned, from the calls the walk made: that of
\* the finder that ended it, DRGN_ERROR_LOOKUP when every enabled finder
\* passed
NativeError ==
    IF res.log = <<>> \/ res.log[Len(res.log)].err = drgn_not_found
    THEN DRGN_ERROR_LOOKUP
    ELSE res.log[Len(res.log)].err

\* C16: find_object(name), and program[name] and the object, constant,
\* function and variable lookups that go through it, raises
\* ObjectNotFoundError exactly when no enabled finder resolves the name, and
\* the error's name attribute is the requested name; every other failure
\* keeps its own error kind.
C16_NotFoundCarriesName ==
    /\ [](ObjectLookupDone("find_object") =>
            /\ last.err = ObjectNotFoundError <=> NativeError = DRGN_ERROR_LOOKUP
            /\ NativeError \notin {OK, DRGN_ERROR_LOOKUP} => last.err = NativeError
            /\ NativeError = OK => last.err = OK)
    /\ [][(last'.op = "find_object" /\ last'.err = ObjectNotFoundError) =>
            (/\ last.op = "find_object"
             /\ last.err = InProgress
             /\ last'.args = last.args
             /\ Len(last'.args) = 1)]_vars

C16_Witness ==
    /\ ObjectLookupDone("find_object")
    /\ last.err = ObjectNotFoundError
    /\ last.args = <<"y">>
    /\ Len(res.log) = 2

\* what find_object returns for the error of the native lookup
FindObjectOutcome == LookupReturn("find_object", "object", NativeError, "", <<>>, last.args)

\* C17: for a string name, name in program agrees with find_object(name): it
\* is True when find_object succeeds, False without an error when find_object
\* raises ObjectNotFoundError, and raises the same error when find_object
\* raises another one.
C17_ContainsAgrees ==
    ObjectLookupDone("contains") =>
        /\ FindObjectOutcome.err = OK => (last.err = OK /\ last.args = <<TRUE>>)
        /\ FindObjectOutcome.err = ObjectNotFoundError =>
                (last.err = OK /\ last.args = <<FALSE>>)
        /\ FindObjectOutcome.err \notin {OK, ObjectNotFoundError} =>
                last.err = FindObjectOutcome.err

C17_Witness ==
    /\ ObjectLookupDone("contains")
    /\ last.err = CallbackException
    /\ Len(res.log) = 2

(***************************************************************************)
(* Properties of the operations that take values of a Program.             *)
(***************************************************************************)
\* the operations that check the Program of their argument; they record in
\* last.args whether the native call was made and the values they were given
CheckedOps ==
    {"type_arg", "linux_kernel_loadable_module", "load_module_debug_info",
     "find_standard_debug_info"}

\* the call l was given a value of another Program (a lookup by name that
\* has returned records its result alone)
HasForeign(l) ==
    /\ Len(l.args) >= 2
    /\ \E i \in DOMAIN l.args[2] : l.args[2][i].prog = "other"

Rejected == last.err \in {ValueError, TypeError} /\ ~last.args[1]

\* C18 as the specification states it: every operation that takes a type, an
\* object or a module, stack_trace with an object included, rejects a value of
\* another Program before any native call.
C18_ForeignRejected ==
    (last.op \in CheckedOps \cup {"stack_trace"} /\ HasForeign(last))
        => Rejected

\* C18, for the operations other than stack_trace: Program_type_arg, type
\* lookup, linux_kernel_loadable_module, load_module_debug_info and
\* find_standard_debug_info reject a value of another Program, alone or
\* anywhere in a list, before any native call and leave the registry alone;
\* the error is ValueError unless an earlier item of the list is no Module.
C18_CheckedOpsRejectForeign ==
    /\ []((last.op \in CheckedOps /\ HasForeign(last)) =>
            /\ Rejected
            /\ (\A i \in DOMAIN last.args[2] : last.args[2][i].t # "int")
                    => last.err = ValueError)
    /\ [][(last'.op \in CheckedOps /\ HasForeign(last')) =>
            (modules' = modules /\ res' = NoWalk)]_vars
    /\ [][Program_find_type(DrgnType("other", "X"), {1}) =>
            (last'.err = ValueError /\ res' = NoWalk)]_vars

C18_Witness ==
    /\ last.op = "load_module_debug_info"
    /\ Len(last.args[2]) = 2
    /\ last.args[2][1].prog = "self"
    /\ last.args[2][2].prog = "other"
    /\ last.err = ValueError
    /\ ~last.args[1]
    /\ \E m \in modules : m.status = "none"

\* the module of the registry with this identity
ModuleOf(mods, id) == CHOOSE m \in mods : ModuleId(m) = id

\* a load that reached the native loader
Loaded(l) ==
    /\ l.op \in {"load_module_debug_info", "find_standard_debug_info"}
    /\ l.err = OK
    /\ l.args[1]

ListedIds(l) == {l.args[2][i].items : i \in DOMAIN l.args[2]}

\* C19: loading debug info for a list of modules, in whatever order, loads
\* every listed module whose file is valid and records every listed module
\* whose file is corrupt as failed: a failure neither stops nor undoes the
\* loading of the others, and modules not listed are untouched.
C19_PartialFailure ==
    [][Loaded(last') =>
        /\ {ModuleId(m) : m \in modules'} = {ModuleId(m) : m \in modules}
        /\ \A m \in modules :
            LET id == ModuleId(m)
                n == ModuleOf(modules', id)
            IN  /\ (id \in ListedIds(last') /\ m.status # "loaded"
                        /\ last'.args[3][id] = "valid")
                        => (n.status = "loaded" /\ n.blobs = 1)
                /\ (id \in ListedIds(last') /\ m.status # "loaded"
                        /\ last'.args[3][id] = "corrupt")
                        => (n.status = "failed" /\ n.blobs = 0)
                /\ id \notin ListedIds(last') => n = m]_vars

C19_Witness ==
    /\ last.op = "load_module_debug_info"
    /\ Loaded(last)
    /\ Len(last.args[2]) = 2
    /\ last.args[4] = {}
    /\ last.args[3][last.args[2][1].items] = "corrupt"
    /\ last.args[3][last.args[2][2].items] = "valid"
    /\ ModuleOf(modules, last.args[2][1].items).status = "failed"
    /\ ModuleOf(modules, last.args[2][2].items).status = "loaded"

\* C20: loading the debug info of a module that has it is idempotent: the
\* module keeps its single blob, whatever file is offered, the registry has
\* the same modules afterwards as before, so every lookup of the registry
\* returns what it returned; no module ever holds more than one blob.
C20_ReloadIdempotent ==
    /\ [](\A m \in modules : m.blobs <= 1 /\ (m.status = "loaded" <=> m.blobs = 1))
    /\ [][Loaded(last') =>
            /\ \A m \in modules : m.status = "loaded" => m \in modules'
            /\ ListedIds(last') \subseteq LoadedIds(modules) => modules' = modules]_vars

C20_Witness ==
    /\ last.op = "load_module_debug_info"
    /\ Loaded(last)
    /\ Len(last.args[2]) = 1
    /\ last.args[2][1].items \in last.args[4]
    /\ ModuleOf(modules, last.args[2][1].items).blobs = 1


(***************************************************************************)
(* Specification of the enable index: finders are registered with every    *)
(* enable_index a caller can pass, None, -1, each size_t value, a negative  *)
(* value other than -1 and a value above SIZE_MAX.                          *)
(***************************************************************************)
IndexObjs == {PyNone} \cup {PyInt(n) : n \in -2 .. SIZE_MAX + 1}

IndexRegister ==
    \E w \in {"type"} :
        \E name \in Names :
            \E enable_index_obj \in IndexObjs :
                Program_register_finder(w, name, "f", enable_index_obj)

IndexSetEnabled ==
    \E names_obj \in {[isseq |-> TRUE, items |-> <<>>]} :
        Program_set_enabled_finders("type", names_obj)

NextIndex == IndexRegister \/ IndexSetEnabled

SpecIndex == Init /\ [][NextIndex]_vars

\* C28: for every explicit enable index 0 .. SIZE_MAX the value handed to
\* the native registration is never DRGN_HANDLER_REGISTER_DONT_ENABLE: an
\* index equal to the sentinel is decremented, a finder registered with an
\* explicit index is enabled afterwards, and the sentinel is passed only for
\* None.
C28_ExplicitIndexEnables ==
    /\ [](\A obj \in IndexObjs :
            LET e == EnableIndexArg(obj) IN
            /\ (obj.t = "int" /\ obj.v \in 0 .. SIZE_MAX)
               => /\ e.err = OK
                  /\ e.value # DRGN_HANDLER_REGISTER_DONT_ENABLE
                  /\ e.value = IF obj.v = DRGN_HANDLER_REGISTER_DONT_ENABLE
                               THEN obj.v - 1 ELSE obj.v
            /\ (e.err = OK /\ e.value = DRGN_HANDLER_REGISTER_DONT_ENABLE)
               => obj = PyNone)
    /\ [][(/\ last'.op = "register" /\ last'.err = OK
           /\ last'.args[3].t = "int" /\ last'.args[3].v >= 0)
          => \A w \in {last'.which} : \A name \in {last'.args[1]} :
                 /\ name \in Range(Program_enabled_finders(w)')
                 /\ name \notin Range(Program_enabled_finders(w))]_vars

\* C28 happens: b was registered with an index equal to the sentinel
\* SIZE_MAX - 1 and is enabled, after a.
C28_Witness ==
    /\ last.op = "register" /\ last.which = "type" /\ last.err = OK
    /\ last.args[1] = "b"
    /\ last.args[3] = PyInt(DRGN_HANDLER_REGISTER_DONT_ENABLE)
    /\ Program_enabled_finders("type") = <<"a", "b">>


\* a call of Program_contains has returned
ContainsDone == ~res.active /\ last.op = "contains"

\* the int Program_contains returned
ContainsResult ==
    IF last.args = <<>> THEN -1 ELSE IF last.args = <<TRUE>> THEN 1 ELSE 0

\* C27 as stated: Program_contains returns -1 exactly when an exception is
\* pending, and 0 or 1 only with none pending.
C27_MinusOneIffException ==
    ContainsDone => (ContainsResult = -1 <=> last.err # OK)

\* C27: for a string key Program_contains returns -1 exactly when an
\* exception is pending, which is when the lookup ended in an error other
\* than a lookup error, and 0 or 1 with none pending; a key that is not a
\* string leaves KeyError pending, with the return value 0.
C27_ContainsReturnValue ==
    ContainsDone =>
        /\ ContainsResult = -1 => last.err # OK
        /\ ContainsResult = 1 => last.err = OK
        /\ ContainsResult = 0 => last.err \in {OK, KeyError}
        /\ res.op = "contains" =>
              /\ ContainsResult = -1 <=> last.err # OK
              /\ ContainsResult = -1 <=> NativeError \notin {OK, DRGN_ERROR_LOOKUP}
        /\ res.op # "contains" => (last.err = KeyError /\ ContainsResult = 0)

\* C27 happens: a key that is not a string was tested; KeyError is pending
\* and the return value is 0.
C27_Witness ==
    /\ ContainsDone
    /\ res.op # "contains"
    /\ last.err = KeyError
    /\ ContainsResult = 0


\* C30: a read whose callback returns a buffer of a length other than the
\* count asked fails with ValueError, one whose callback raises fails with
\* the callback's exception and one whose callback returns no buffer with
\* TypeError; in each case nothing is written to the destination, a read
\* that succeeds returns exactly size bytes, and a read leaves the segments
\* as they were.
C30_BadCallbackFails ==
    /\ [](last.op = "read" =>
            /\ last.err = OK => Len(last.args[4]) = last.args[2]
            /\ last.err # OK => last.args[4] = <<>>
            /\ last.args[5] # <<>> =>
                /\ last.args[6] \in {"short", "long"} => last.err = ValueError
                /\ last.args[6] = "raise" => last.err = CallbackException
                /\ last.args[6] = "notbuffer" => last.err = TypeError
                /\ last.args[6] = "bytes" => last.err = OK)
    /\ [][last'.op = "read" => segments' = segments]_vars

\* C30 happens: the callback of the segment at 2 was called for two bytes and
\* returned three; the read failed with ValueError.
C30_Witness ==
    /\ last.op = "read"
    /\ last.args[1] = 2 /\ last.args[2] = 2
    /\ Len(last.args[5]) = 1
    /\ last.args[6] = "long"
    /\ last.err = ValueError
    /\ last.args[4] = <<>>


\* a symbol lookup is under way or was the last operation, so that the chain
\* is the one its log was made with
SymbolWalk == res.which = "symbol" /\ res.op = last.op

\* entry i of the walk took the fast path: no call was made to Python
FastPath(i) == res.log[i].rets = <<>>

\* the symbols the entries before entry i added
RECURSIVE AddedBefore(_, _)
AddedBefore(log, i) ==
    IF i <= 1 THEN <<>> ELSE AddedBefore(log, i - 1) \o log[i - 1].added

\* what the generic path gives for a callable that returns what the
\* SymbolIndex returns when it is called
GenericDispatch(flags, builder) ==
    py_symbol_find_fn(flags, [prog |-> "self", fn |-> "f"], <<SymbolIndex_call(flags)>>,
                      builder)

\* C29 as stated: the fast path is taken only when the SymbolIndex is the
\* sole entry of the symbol chain.
C29_FastPathOnlySoleEntry ==
    SymbolWalk =>
        \A i \in DOMAIN res.log :
            FastPath(i) => (i = 1 /\ Len(chains["symbol"].enabled) = 1)

\* C29: an entry of the symbol chain takes the fast path exactly when its
\* callable is a SymbolIndex, whatever other entries the chain has, and the
\* fast path adds the same symbols and ends with the same error as the
\* generic path does with the SymbolIndex called as a callable.
C29_FastPathEquivalent ==
    SymbolWalk =>
        \A i \in DOMAIN res.log :
            LET h == Handler(chains["symbol"], res.log[i].name)
                gen == GenericDispatch(res.flags, AddedBefore(res.log, i))
            IN  /\ FastPath(i) <=> h.arg.fn = SymbolIndexObj
                /\ FastPath(i) =>
                    /\ res.log[i].err = gen.err
                    /\ AddedBefore(res.log, i) \o res.log[i].added = gen.builder

\* C29 happens: one symbol was asked for; the first entry returned an empty
\* list through the generic path and the SymbolIndex, second in the chain,
\* answered through the fast path.
C29_Witness ==
    /\ SymbolWalk
    /\ last.op = "symbol" /\ last.err = OK
    /\ Len(res.log) = 2
    /\ ~FastPath(1) /\ FastPath(2)
    /\ res.log[2].added = <<"s1">>


(***************************************************************************)
(* Logging: the log level and the progress file of every live Program      *)
(* follow the configuration of the Python logger, which is read when the   *)
(* first Program is made and whenever the logger clears its cache.         *)
(***************************************************************************)
\* What a read of the logging configuration meets: the first level the
\* logger is enabled for, whether stderr is a terminal, whether a
\* StreamHandler writes to stderr, and the call that fails, if one does.
LogConfigs ==
    [level : {1, 4}, isatty : BOOLEAN, stderr_handler : BOOLEAN,
     fail : {"none", "isEnabledFor", "handlers"}]

\* get_logging_status(&log_level, &enable_progress_bar): the return value
\* and what the two locations hold afterwards
get_logging_status(config, log_level, enable_progress_bar) ==
    IF config.fail = "isEnabledFor"
    THEN [ret |-> -1, log_level |-> log_level,
          enable_progress_bar |-> enable_progress_bar]
    ELSE IF config.level > DRGN_LOG_WARNING \/ ~config.isatty
    THEN [ret |-> 0, log_level |-> config.level, enable_progress_bar |-> FALSE]
    ELSE IF config.fail = "handlers"
    THEN [ret |-> -1, log_level |-> config.level,
          enable_progress_bar |-> enable_progress_bar]
    ELSE [ret |-> 0, log_level |-> config.level,
          enable_progress_bar |-> config.stderr_handler]

cache_logging_status(config) ==
    get_logging_status(config, cached_log_level, cached_enable_progress_bar)

\* drgn_program_set_log_level and drgn_program_set_progress_file
SetLogging(prog, log_level, enable_progress_bar) ==
    [prog EXCEPT !.log_level = log_level, !.progress_file = enable_progress_bar]

\* Variant of LoggerCacheWrapper_clear that updates the cache and no
\* Program.
LoggerCacheWrapper_clear_CacheOnly(config) ==
    /\ IF programs = {}
       THEN /\ last' = [op |-> "clear", which |-> "", err |-> OK, args |-> <<config>>]
            /\ UNCHANGED <<cached_log_level, cached_enable_progress_bar>>
       ELSE LET s == cache_logging_status(config) IN
            /\ cached_log_level' = s.log_level
            /\ cached_enable_progress_bar' = s.enable_progress_bar
            /\ last' = [op |-> "clear", which |-> "",
                        err |-> IF s.ret # 0 THEN CallbackException ELSE OK,
                        args |-> <<config>>]
    /\ UNCHANGED <<chains, objects, refcnt, res, modules, segments, programs, progs, sched>>

LoggerCacheWrapper_clear(config) ==
    /\ IF programs = {}
       THEN /\ last' = [op |-> "clear", which |-> "", err |-> OK, args |-> <<config>>]
            /\ UNCHANGED <<cached_log_level, cached_enable_progress_bar, progs>>
       ELSE LET s == cache_logging_status(config) IN
            /\ cached_log_level' = s.log_level
            /\ cached_enable_progress_bar' = s.enable_progress_bar
            /\ IF s.ret # 0
               THEN /\ last' = [op |-> "clear", which |-> "", err |-> CallbackException,
                               args |-> <<config>>]
                    /\ UNCHANGED progs
               ELSE /\ last' = [op |-> "clear", which |-> "", err |-> OK,
                               args |-> <<config>>]
                    /\ progs' = [p \in ProgIds |->
                                   IF p \in programs
                                   THEN SetLogging(progs[p], s.log_level,
                                                   s.enable_progress_bar)
                                   ELSE progs[p]]
    /\ UNCHANGED <<chains, objects, refcnt, res, modules, segments, programs, sched>>

\* Program_init_logging(prog): the return value, the cache and the set of
\* live programs afterwards
Program_init_logging(prog, config) ==
    LET s == IF programs = {} THEN cache_logging_status(config)
             ELSE [ret |-> 0, log_level |-> cached_log_level,
                   enable_progress_bar |-> cached_enable_progress_bar]
    IN  [ret |-> s.ret, log_level |-> s.log_level,
         enable_progress_bar |-> s.enable_progress_bar,
         programs |-> IF s.ret = 0 THEN programs \cup {prog} ELSE programs]

Program_deinit_logging(progset, prog) == progset \ {prog}

\* a Program that drgn_program_init has set up
NewProgram(state) ==
    [state |-> state, log_level |-> DRGN_LOG_NONE, progress_file |-> FALSE,
     cleared |-> FALSE]

\* Program_new_impl: the Program is allocated and set up; when
\* Program_init_logging fails the only reference is dropped, and
\* Program_dealloc begins with Program_deinit_logging
Program_new(prog, config) ==
    /\ ~res.active
    /\ progs[prog].state \in {"none", "freed"}
    /\ LET r == Program_init_logging(prog, config) IN
       /\ cached_log_level' = r.log_level
       /\ cached_enable_progress_bar' = r.enable_progress_bar
       /\ IF r.ret = 0
          THEN /\ programs' = r.programs
               /\ progs' = [progs EXCEPT ![prog] =
                               SetLogging(NewProgram("live"), r.log_level,
                                          r.enable_progress_bar)]
               /\ last' = [op |-> "Program", which |-> "", err |-> OK,
                          args |-> <<prog, config>>]
          ELSE /\ programs' = Program_deinit_logging(r.programs, prog)
               /\ progs' = [progs EXCEPT ![prog] = NewProgram("unlisted")]
               /\ last' = [op |-> "Program", which |-> "", err |-> CallbackException,
                          args |-> <<prog, config>>]
    /\ res' = NoWalk
    /\ UNCHANGED <<chains, objects, refcnt, modules, segments, sched>>

\* program_from_core_dump(path): the Program is made as by Program_new;
\* when drgn_program_init_core_dump fails the only reference is dropped
program_from_core_dump(prog, config, err) ==
    /\ ~res.active
    /\ progs[prog].state \in {"none", "freed"}
    /\ LET r == Program_init_logging(prog, config) IN
       /\ cached_log_level' = r.log_level
       /\ cached_enable_progress_bar' = r.enable_progress_bar
       /\ IF r.ret # 0
          THEN /\ programs' = Program_deinit_logging(r.programs, prog)
               /\ progs' = [progs EXCEPT ![prog] = NewProgram("unlisted")]
               /\ last' = [op |-> "program_from_core_dump", which |-> "",
                          err |-> CallbackException, args |-> <<prog, config>>]
          ELSE IF err # OK
          THEN /\ programs' = Program_deinit_logging(r.programs, prog)
               /\ progs' = [progs EXCEPT ![prog] =
                               SetLogging(NewProgram("unlisted"), r.log_level,
                                          r.enable_progress_bar)]
               /\ last' = [op |-> "program_from_core_dump", which |-> "",
                          err |-> err, args |-> <<prog, config>>]
          ELSE /\ programs' = r.programs
               /\ progs' = [progs EXCEPT ![prog] =
                               SetLogging(NewProgram("live"), r.log_level,
                                          r.enable_progress_bar)]
               /\ last' = [op |-> "program_from_core_dump", which |-> "",
                          err |-> OK, args |-> <<prog, config>>]
    /\ res' = NoWalk
    /\ UNCHANGED <<chains, objects, refcnt, modules, segments, sched>>

(***************************************************************************)
(* The end of a Program: Program_clear, which the garbage collector calls  *)
(* on a Program in an unreachable cycle, and Program_dealloc, in the three *)
(* steps of its body.                                                      *)
(***************************************************************************)
\* Variant of Program_clear that leaves the released objects in the set.
Program_clear_KeepsSet(prog) ==
    /\ ~res.active
    /\ progs[prog].state = "live"
    /\ ~progs[prog].cleared
    /\ progs' = [progs EXCEPT ![prog].cleared = TRUE]
    /\ IF prog = "self"
       THEN /\ refcnt' = Py_DECREF(refcnt, objects)
            /\ UNCHANGED objects
       ELSE UNCHANGED <<objects, refcnt>>
    /\ last' = [op |-> "tp_clear", which |-> "", err |-> OK, args |-> <<prog>>]
    /\ UNCHANGED <<chains, res, modules, segments, programs, cached_log_level,
                   cached_enable_progress_bar, sched>>

\* Program_clear: every held object is released and the set is emptied; the
\* native program is not touched
Program_clear(prog) ==
    /\ ~res.active
    /\ progs[prog].state = "live"
    /\ ~progs[prog].cleared
    /\ progs' = [progs EXCEPT ![prog].cleared = TRUE]
    /\ IF prog = "self"
       THEN /\ refcnt' = Py_DECREF(refcnt, objects)
            /\ objects' = {}
       ELSE UNCHANGED <<objects, refcnt>>
    /\ last' = [op |-> "tp_clear", which |-> "", err |-> OK, args |-> <<prog>>]
    /\ UNCHANGED <<chains, res, modules, segments, programs, cached_log_level,
                   cached_enable_progress_bar, sched>>

\* Variant of Program_dealloc that leaves the Program in the set of live
\* programs.
Program_dealloc_KeepsListed(prog) ==
    /\ ~res.active
    /\ progs[prog].state = "live"
    /\ progs' = [progs EXCEPT ![prog].state = "unlisted"]
    /\ last' = [op |-> "tp_dealloc", which |-> "", err |-> OK, args |-> <<prog>>]
    /\ UNCHANGED <<chains, objects, refcnt, res, modules, segments, programs,
                   cached_log_level, cached_enable_progress_bar, sched>>

\* Program_dealloc, first step: Program_deinit_logging(self)
Program_dealloc(prog) ==
    /\ ~res.active
    /\ progs[prog].state = "live"
    /\ programs' = Program_deinit_logging(programs, prog)
    /\ progs' = [progs EXCEPT ![prog].state = "unlisted"]
    /\ last' = [op |-> "tp_dealloc", which |-> "", err |-> OK, args |-> <<prog>>]
    /\ UNCHANGED <<chains, objects, refcnt, res, modules, segments,
                   cached_log_level, cached_enable_progress_bar, sched>>

\* Program_dealloc, second step: drgn_program_deinit(&self->prog) frees the
\* handler chains, the memory segments and the modules
drgn_program_deinit(prog) ==
    /\ progs[prog].state = "unlisted"
    /\ progs' = [progs EXCEPT ![prog].state = "deinit"]
    /\ IF prog = "self"
       THEN /\ chains' = [w \in Which |-> EmptyList]
            /\ segments' = <<>>
            /\ modules' = {}
       ELSE UNCHANGED <<chains, segments, modules>>
    /\ last' = [op |-> "drgn_program_deinit", which |-> "", err |-> OK, args |-> <<prog>>]
    /\ UNCHANGED <<objects, refcnt, res, programs, cached_log_level,
                   cached_enable_progress_bar, sched>>

\* Program_dealloc, third step: Py_DECREF of every held object,
\* pyobjectp_set_deinit and tp_free
Program_dealloc_objects(prog) ==
    /\ progs[prog].state = "deinit"
    /\ progs' = [progs EXCEPT ![prog] = [NoProgram EXCEPT !.state = "freed"]]
    /\ IF prog = "self"
       THEN /\ refcnt' = Py_DECREF(refcnt, objects)
            /\ objects' = {}
       ELSE UNCHANGED <<objects, refcnt>>
    /\ last' = [op |-> "tp_free", which |-> "", err |-> OK, args |-> <<prog>>]
    /\ UNCHANGED <<chains, res, modules, segments, programs, cached_log_level,
                   cached_enable_progress_bar, sched>>

\* the Program self can be called: it is live and was not cleared
Callable == progs["self"].state = "live" /\ ~progs["self"].cleared

\* Workload of the logging: Programs are made and destroyed and the logger
\* clears its cache, under every configuration.
NextLogging ==
    \/ \E prog \in ProgIds, config \in LogConfigs : Program_new(prog, config)
    \/ \E config \in LogConfigs : LoggerCacheWrapper_clear(config)
    \/ \E prog \in ProgIds : Program_dealloc(prog)
    \/ \E prog \in ProgIds : drgn_program_deinit(prog)
    \/ \E prog \in ProgIds : Program_dealloc_objects(prog)

SpecLogging == Init /\ [][NextLogging]_vars

\* the configurations of the workload of the life of Programs: the logger is
\* enabled for a level and writes to stderr, a terminal, or the read fails
LifeConfigs ==
    {c \in LogConfigs : /\ c.isatty /\ c.stderr_handler
                        /\ c.fail \in {"none", "isEnabledFor"}
                        /\ c.fail = "isEnabledFor" => c.level = 1}

\* Workload of the life of Programs: a callable is registered as finders and
\* as memory readers of self, Programs are made and destroyed, the collector
\* clears them and the logger clears its cache.
NextLife ==
    \/ \E name \in {"a", "b"} :
            Callable /\ Program_register_finder("object", name, "f", PyInt(-1))
    \/ \E address \in {0, 2} :
            Callable /\ Program_add_memory_segment(address, 2, "f", FALSE)
    \/ \E prog \in ProgIds, config \in LifeConfigs : Program_new(prog, config)
    \/ \E prog \in ProgIds, config \in LifeConfigs, err \in {DRGN_ERROR_INVALID_ARGUMENT} :
            program_from_core_dump(prog, config, err)
    \/ \E config \in LifeConfigs : LoggerCacheWrapper_clear(config)
    \/ \E prog \in ProgIds : Program_clear(prog)
    \/ \E prog \in ProgIds : Program_dealloc(prog)
    \/ \E prog \in ProgIds : drgn_program_deinit(prog)
    \/ \E prog \in ProgIds : Program_dealloc_objects(prog)

SpecLife == Init /\ [][NextLife]_vars


\* C23 as stated: every live Program has the cached log level and the cached
\* progress setting.
C23_LiveProgramsFollowCache ==
    \A p \in programs :
        /\ progs[p].log_level = cached_log_level
        /\ progs[p].progress_file = cached_enable_progress_bar

\* C23: every live Program has the cached progress setting; after a
\* successful cache clear with a live Program, and for a Program just made,
\* the log level and the progress setting are the cached ones, which after
\* the clear are those of the configuration read; a clear that fails leaves
\* every Program as it was.
C23_LoggingFollowsClear ==
    /\ [](/\ \A p \in programs :
                progs[p].progress_file = cached_enable_progress_bar
          /\ (last.op = "clear" /\ last.err = OK /\ programs # {}) =>
                LET config == last.args[1] IN
                /\ cached_log_level = config.level
                /\ cached_enable_progress_bar
                      = (/\ config.level <= DRGN_LOG_WARNING
                         /\ config.isatty /\ config.stderr_handler)
                /\ \A p \in programs :
                      /\ progs[p].log_level = cached_log_level
                      /\ progs[p].progress_file = cached_enable_progress_bar
          /\ (/\ last.op \in {"Program", "program_from_core_dump"}
              /\ last.err = OK /\ Len(last.args) = 2) =>
                /\ last.args[1] \in programs
                /\ progs[last.args[1]].log_level = cached_log_level
                /\ progs[last.args[1]].progress_file = cached_enable_progress_bar)
    /\ [][(last'.op = "clear" /\ last'.err # OK) => progs' = progs]_vars

\* C23 happens: a cache clear failed while it read the handlers; the log
\* level it had read is cached and the live Program has another one.
C23_Witness ==
    /\ last.op = "clear" /\ last.err # OK
    /\ last.args[1].fail = "handlers"
    /\ "self" \in programs
    /\ progs["self"].log_level # cached_log_level

\* C24: a Program leaves the set of live programs first, then its native
\* state is torn down with the held objects still held, then every held
\* object is released once; a Program whose construction failed goes the
\* same way; the set of live programs holds live Programs only, and a cache
\* clear changes no Program outside it.
C24_DeallocOrder ==
    /\ [](\A p \in programs : progs[p].state = "live")
    /\ [][\A p \in ProgIds :
            /\ (progs[p].state = "live" /\ progs'[p].state # "live") =>
                  /\ progs'[p].state = "unlisted"
                  /\ p \notin programs'
                  /\ chains' = chains /\ segments' = segments /\ objects' = objects
            /\ (progs[p].state \in {"none", "freed"} /\ progs'[p].state # progs[p].state) =>
                  /\ progs'[p].state \in {"live", "unlisted"}
                  /\ progs'[p].state = "live" <=> p \in programs'
            /\ (progs[p].state = "unlisted" /\ progs'[p].state # "unlisted") =>
                  /\ progs'[p].state = "deinit"
                  /\ p \notin programs'
                  /\ p = "self" =>
                        /\ chains' = [w \in Which |-> EmptyList] /\ segments' = <<>>
                        /\ objects' = objects /\ refcnt' = refcnt
            /\ (progs[p].state = "deinit" /\ progs'[p].state # "deinit") =>
                  /\ progs'[p].state = "freed"
                  /\ p \notin programs'
                  /\ p = "self" =>
                        /\ objects' = {}
                        /\ \A o \in objects : refcnt'[o] = refcnt[o] - 1
                        /\ \A o \in DOMAIN refcnt' : refcnt'[o] = 0
            /\ (last'.op = "clear" /\ progs[p].state # "live") => progs'[p] = progs[p]]_vars

\* C24 happens: self, which held objects, was destroyed, and a cache clear
\* then updated the other Program.
C24_Witness ==
    /\ last.op = "clear" /\ last.err = OK
    /\ progs["self"].state = "freed"
    /\ programs = {"other"}
    /\ DOMAIN refcnt # {}
    /\ progs["other"].log_level = 4

\* the callback arguments the native program of self stores
NativeArgs ==
    {h.arg : h \in UNION {chains[w].handlers : w \in Which}}
    \cup {PyCallable(segments[i].read_fn) : i \in DOMAIN segments}

\* the native program state of self has not been torn down
NativeUp == progs["self"].state \in {"live", "unlisted"}

\* C25 as stated: until the native program state is torn down, every
\* callback argument the native program stores is in the held-object set,
\* also after Program_clear.
C25_KeepAlive == NativeUp => NativeArgs \subseteq objects

\* C25: until the native program state is torn down or Program_clear runs,
\* every callback argument the native program stores is in the held-object
\* set, with one reference owned by the Program; after Program_clear the set
\* is empty and the native program stores what it stored.
C25_KeepAliveUntilClear ==
    /\ [](NativeUp =>
            IF progs["self"].cleared THEN objects = {}
            ELSE /\ NativeArgs \subseteq objects
                 /\ \A o \in NativeArgs : refcnt[o] = 1)
    /\ [][last'.op = "tp_clear" =>
            (chains' = chains /\ segments' = segments)]_vars

\* C25 happens: the collector cleared self, whose native program still
\* stores a finder's callable and a memory reader that are no longer held.
C25_Witness ==
    /\ progs["self"].state = "live" /\ progs["self"].cleared
    /\ chains["object"].handlers # {}
    /\ Len(segments) = 1
    /\ objects = {}
    /\ \A o \in NativeArgs : refcnt[o] = 0

\* C26: the Program owns one reference to each held object, however often
\* it was held, and none to an object that is not held: Program_clear and
\* Program_dealloc release each reference once.
C26_ReferenceBalance ==
    /\ objects \subseteq DOMAIN refcnt
    /\ \A o \in DOMAIN refcnt : refcnt[o] = IF o \in objects THEN 1 ELSE 0

\* C26 happens: the callable f was held for two object finders and two
\* memory segments, Program_clear released it, and Program_dealloc has
\* freed the Program.
C26_Witness ==
    /\ last.op = "tp_free" /\ last.args = <<"self">>
    /\ DOMAIN refcnt = {PyCallable("f")}
    /\ refcnt[PyCallable("f")] = 0


(***************************************************************************)
(* The interpreter lock.  A thread is outside the library (idle without    *)
(* the lock, python with it), in a native call, in a blocking span of a    *)
(* native call, or in a callback the native library made, which has taken  *)
(* the lock (callback) or runs the SymbolIndex fast path without it (fast).*)
(***************************************************************************)
\* everything but the lock and the threads
NoSched ==
    <<chains, objects, refcnt, res, last, modules, segments, programs,
      cached_log_level, cached_enable_progress_bar, progs, stack>>

\* the callbacks the native library makes
Callbacks ==
    {"drgnpy_log_fn", "py_memory_read_fn", "py_debug_info_find_fn", "py_type_find_fn",
     "py_object_find_fn", "py_symbol_find_fn"}

\* the thread state attached to the calling thread: NULL unless it holds the
\* interpreter lock
PyThreadState_GetUnchecked(t) == IF gil = t THEN t ELSE NoThread

\* a thread takes or gives up the interpreter lock outside the library
ThreadTake(t) ==
    /\ threads[t].pc = "idle"
    /\ gil = NoThread
    /\ gil' = t
    /\ threads' = [threads EXCEPT ![t].pc = "python"]
    /\ UNCHANGED NoSched

ThreadYield(t) ==
    /\ threads[t].pc = "python"
    /\ gil' = NoThread
    /\ threads' = [threads EXCEPT ![t].pc = "idle"]
    /\ UNCHANGED NoSched

\* a thread calls into the native library, with or without the lock, and
\* returns from it
NativeCall(t) ==
    /\ threads[t].pc \in {"idle", "python"}
    /\ threads' = [threads EXCEPT ![t].pc = "native"]
    /\ UNCHANGED <<gil, NoSched>>

NativeReturn(t) ==
    /\ threads[t].pc = "native"
    /\ threads' = [threads EXCEPT ![t].pc = IF gil = t THEN "python" ELSE "idle"]
    /\ UNCHANGED <<gil, NoSched>>

\* Variant of drgn_begin_blocking that releases nothing and reports a
\* release.
drgn_begin_blocking_NoRelease(t) ==
    /\ threads[t].pc = "native"
    /\ threads' = [threads EXCEPT ![t].pc = "blocking", ![t].state = t,
                                  ![t].held = (gil = t)]
    /\ UNCHANGED <<gil, NoSched>>

\* drgn_begin_blocking(): PyEval_ReleaseThread(state) if the thread has a
\* state; held records whether the thread held the lock at the call
drgn_begin_blocking(t) ==
    /\ threads[t].pc = "native"
    /\ LET state == PyThreadState_GetUnchecked(t) IN
       /\ gil' = IF state # NoThread THEN NoThread ELSE gil
       /\ threads' = [threads EXCEPT ![t].pc = "blocking", ![t].state = state,
                                     ![t].held = (gil = t)]
    /\ UNCHANGED NoSched

\* drgn_end_blocking(state): PyEval_RestoreThread(state) waits for the lock
drgn_end_blocking(t) ==
    /\ threads[t].pc = "blocking"
    /\ IF threads[t].state # NoThread
       THEN /\ gil = NoThread
            /\ gil' = threads[t].state
       ELSE UNCHANGED gil
    /\ threads' = [threads EXCEPT ![t].pc = "native", ![t].state = NoThread]
    /\ UNCHANGED NoSched

\* Variant of PyGILState_guard that does not take the lock.
PyGILState_guard_NoEnsure(t) ==
    /\ gil' = gil
    /\ threads' = [threads EXCEPT ![t].gstate = "PyGILState_LOCKED",
                                  ![t].from = threads[t].pc, ![t].pc = "callback"]

\* PyGILState_guard(): PyGILState_Ensure() waits for the lock unless the
\* thread holds it; the state it returns is released when the callback ends
PyGILState_guard(t) ==
    /\ gil \in {t, NoThread}
    /\ gil' = t
    /\ threads' = [threads EXCEPT
                      ![t].gstate = IF gil = t THEN "PyGILState_LOCKED"
                                    ELSE "PyGILState_UNLOCKED",
                      ![t].from = threads[t].pc, ![t].pc = "callback"]

\* the native library calls a callback: each takes the lock before it
\* touches the interpreter, but py_symbol_find_fn for a SymbolIndex, which
\* calls drgn_symbol_index_find without the lock
Callback(t, cb, fn) ==
    /\ threads[t].pc \in {"native", "blocking"}
    /\ IF cb = "py_symbol_find_fn" /\ fn = SymbolIndexObj
       THEN /\ threads' = [threads EXCEPT ![t].from = threads[t].pc, ![t].pc = "fast"]
            /\ UNCHANGED gil
       ELSE PyGILState_guard(t)
    /\ UNCHANGED NoSched

\* the callback returns: PyGILState_Release(gstate)
CallbackReturn(t) ==
    /\ threads[t].pc \in {"callback", "fast"}
    /\ gil' = IF threads[t].pc = "callback" /\ threads[t].gstate = "PyGILState_UNLOCKED"
              THEN NoThread ELSE gil
    /\ threads' = [threads EXCEPT ![t].pc = threads[t].from, ![t].from = "",
                                  ![t].gstate = ""]
    /\ UNCHANGED NoSched

NextBlocking ==
    \/ \E t \in Threads : ThreadTake(t)
    \/ \E t \in Threads : ThreadYield(t)
    \/ \E t \in Threads : NativeCall(t)
    \/ \E t \in Threads : NativeReturn(t)
    \/ \E t \in Threads : drgn_begin_blocking(t)
    \/ \E t \in Threads : drgn_end_blocking(t)
    \/ \E t \in Threads, cb \in Callbacks, fn \in {"f", SymbolIndexObj} : Callback(t, cb, fn)
    \/ \E t \in Threads : CallbackReturn(t)

SpecBlocking == Init /\ [][NextBlocking]_vars

\* the thread holds the interpreter lock
Holds(t) == gil = t

\* C22: drgn_begin_blocking releases the lock exactly when the calling
\* thread holds it, drgn_end_blocking takes it exactly when begin released
\* it, so that the thread holds the lock after end exactly when it held it
\* before begin; between them the thread holds the lock only inside a
\* callback; and a thread inside a callback that touches the interpreter
\* holds the lock, whatever the other threads do.
C22_LockAroundBlocking ==
    /\ [](\A t \in Threads :
            /\ threads[t].pc = "callback" => Holds(t)
            /\ threads[t].pc = "blocking" => ~Holds(t)
            /\ threads[t].pc = "python" => Holds(t))
    /\ [][\A t \in Threads :
            /\ (threads[t].pc = "native" /\ threads'[t].pc = "blocking") =>
                  /\ (threads'[t].state # NoThread) <=> Holds(t)
                  /\ threads'[t].held <=> Holds(t)
                  /\ ~Holds(t)'
                  /\ ~Holds(t) => gil' = gil
            /\ (threads[t].pc = "blocking" /\ threads'[t].pc = "native") =>
                  /\ Holds(t)' <=> threads[t].state # NoThread
                  /\ Holds(t)' <=> threads[t].held
                  /\ ~Holds(t)' => gil' = gil
            /\ (threads[t].pc \in {"callback", "fast"}
                /\ threads'[t].pc \notin {"callback", "fast"}) =>
                  /\ threads'[t].pc = "blocking" => ~Holds(t)'
                  /\ threads[t].pc = "fast" => gil' = gil]_vars

\* C22 happens: t1 released the lock in drgn_begin_blocking, t2 took it and
\* is in a blocking span of its own, and a callback on t1 holds the lock it
\* took.
C22_Witness ==
    /\ threads["t1"].pc = "callback" /\ threads["t1"].from = "blocking"
    /\ threads["t1"].held
    /\ threads["t1"].gstate = "PyGILState_UNLOCKED"
    /\ threads["t2"].pc = "blocking" /\ threads["t2"].held
    /\ Holds("t1")


(***************************************************************************)
(* Lookups inside lookups.  A type finder that the walk has called may     *)
(* call Program_find_type itself before it returns: the walk it is part of *)
(* waits, in the frames of the native calls, while the new walk runs.      *)
(***************************************************************************)
\* everything but the walks and the outcome of the last call
NoWalks ==
    <<chains, objects, refcnt, modules, segments, programs, cached_log_level,
      cached_enable_progress_bar, progs, gil, threads>>

\* the finder the walk is at calls prog.type(name) for a name of other
\* kinds: drgn_program_find_type starts a walk of its own
Program_find_type_nested(kinds) ==
    /\ res.active
    /\ res.which = "type"
    /\ res.pos < Len(chains["type"].enabled)
    /\ Len(stack) < MaxDepth
    /\ kinds # res.kinds
    /\ stack' = Append(stack, [res |-> res, last |-> last])
    /\ res' = StartWalk("find_type", "type", kinds, {})
    /\ last' = Pending("find_type", "type")
    /\ UNCHANGED NoWalks

\* Variant of Program_find_type_return in which the walk that waited goes
\* on from the entry the inner walk ended at.
Program_find_type_return_SharedPosition ==
    /\ ~res.active
    /\ stack # <<>>
    /\ res' = [stack[Len(stack)].res EXCEPT !.pos = res.pos]
    /\ last' = stack[Len(stack)].last
    /\ stack' = SubSeq(stack, 1, Len(stack) - 1)
    /\ UNCHANGED NoWalks

\* the inner Program_find_type returns to the finder that called it: the
\* walk that waited is where it was
Program_find_type_return ==
    /\ ~res.active
    /\ stack # <<>>
    /\ res' = stack[Len(stack)].res
    /\ last' = stack[Len(stack)].last
    /\ stack' = SubSeq(stack, 1, Len(stack) - 1)
    /\ UNCHANGED NoWalks

NextNested ==
    \/ \E name \in {"a", "b"} :
            stack = <<>> /\ Program_register_finder("type", name, "f", PyInt(-1))
    \/ \E kinds \in KindSets : stack = <<>> /\ Program_find_type(PyStr, kinds)
    \/ \E kinds \in KindSets : Program_find_type_nested(kinds)
    \/ \E rets \in {<<r>> : r \in {Py_None, PyRaise, DrgnType("self", "X")}} :
            Chain_invoke(rets)
    \/ Chain_exhausted
    \/ Program_find_type_return

SpecNested == Init /\ [][NextNested]_vars

\* what a walk of the type chain that has ended returns, by its log alone
WalkOutcome(log) ==
    IF log # <<>> /\ log[Len(log)].err = OK
    THEN [op |-> "find_type", which |-> "type", err |-> OK,
          args |-> <<log[Len(log)].rets[1].v>>]
    ELSE IF log = <<>> \/ log[Len(log)].err = drgn_not_found
    THEN [op |-> "find_type", which |-> "type", err |-> DRGN_ERROR_LOOKUP, args |-> <<>>]
    ELSE [op |-> "find_type", which |-> "type", err |-> log[Len(log)].err, args |-> <<>>]

\* a walk has called the enabled finders in order from the first, each after
\* the one before reported not-found
InOrder(walk) ==
    /\ walk.pos = Len(walk.log)
    /\ Len(walk.log) <= Len(Program_enabled_finders("type"))
    /\ \A i \in 1 .. Len(walk.log) :
          /\ walk.log[i].name = Program_enabled_finders("type")[i]
          /\ i < Len(walk.log) => walk.log[i].err = drgn_not_found

\* a walk that has ended ran the whole enabled chain unless a finder ended it
Complete(walk) ==
    /\ InOrder(walk)
    /\ \/ Len(walk.log) = Len(Program_enabled_finders("type"))
       \/ walk.log[Len(walk.log)].err # drgn_not_found

\* C21: a type finder called for one query may call find_type for another:
\* the inner walk starts at the first enabled finder and runs the chain to
\* its end or to the finder that ends it, and returns what its own log
\* gives; the walk that waited then is exactly where it was, at the entry
\* whose finder made the call; the registered and enabled finders are not
\* changed while a walk runs or waits; and the outer lookup returns what
\* its own log gives.
C21_NestedLookup ==
    /\ [](/\ \A k \in DOMAIN stack :
                /\ stack[k].res.active /\ InOrder(stack[k].res)
                /\ stack[k].res.pos < Len(Program_enabled_finders("type"))
          /\ res.op = "find_type" => InOrder(res)
          /\ (res.op = "find_type" /\ ~res.active) =>
                (Complete(res) /\ last = WalkOutcome(res.log)))
    /\ [][/\ Len(stack') > Len(stack) =>
                /\ stack' = Append(stack, [res |-> res, last |-> last])
                /\ res'.active /\ res'.pos = 0 /\ res'.log = <<>>
          /\ Len(stack') < Len(stack) =>
                /\ ~res.active /\ Complete(res) /\ last = WalkOutcome(res.log)
                /\ res' = stack[Len(stack)].res
                /\ last' = stack[Len(stack)].last
                /\ stack' = SubSeq(stack, 1, Len(stack) - 1)
          /\ (res.active \/ stack # <<>>) =>
                /\ Program_registered_finders("type")' = Program_registered_finders("type")
                /\ Program_enabled_finders("type")' = Program_enabled_finders("type")]_vars

\* C21 happens: with a and b enabled, a reported not-found and b, called for
\* kinds {1}, asked for a type of kinds {1, 2}; the inner walk called a and
\* then b again, which returned X, while the outer walk waits at b.
C21_Witness ==
    /\ Len(stack) = 1
    /\ stack[1].res.kinds = {1} /\ stack[1].res.pos = 1
    /\ ~res.active /\ res.kinds = {1, 2}
    /\ Len(res.log) = 2
    /\ res.log[2].name = "b"
    /\ last.err = OK /\ last.args = <<"X">>

====
